---- MODULE Spec2Model ----
(***************************************************************************)
(* A model of the lepton wallet core: the wallet scanner (Wallet.scan,     *)
(* scanLeaves, scanIndex), the TXO queries (TXOs, balances,                *)
(* balancesByTree) and the transaction builder's input generation          *)
(* (ERC20Transaction.generateInputs), running against a merkle tree mirror *)
(* and a key-value store.                                                  *)
(*                                                                         *)
(* Asynchronous methods are split at their awaits: each action is the code *)
(* that runs between two suspension points.  Tree numbers, leaf positions  *)
(* and derivation indices are 0-based as in the source; TLA+ sequences are *)
(* 1-based, so element n of a JavaScript array a is a[n + 1] here.         *)
(***************************************************************************)
EXTENDS Integers, Sequences, FiniteSets, TLC

VARIABLES
    merkletree,        \* per chain: the mirror's trees, each a sequence of leaves
    nullifiers,        \* per chain: the mirror's nullifier index (set of nullifiers seen)
    db,                \* the key-value store's TXO records, keyed <<chainID, tree, position>>
    walletDetails,     \* the persisted wallet details blob
    scanLockPerChain,  \* Wallet.scanLockPerChain
    scanCall,          \* per call slot: one invocation of Wallet.scan and its locals
    emitted,           \* chains for which the last step emitted 'scanned'
    query,             \* one invocation of balances / balancesByTree and its locals
    successive,        \* history: the store as the last completed scan left it
    tx,                \* one invocation of ERC20Transaction.prove and its locals
    applied,           \* one application of a function of the library: name, arguments, result
    replay             \* one invocation of getHistoricalEvents and its locals

vars == <<merkletree, nullifiers, db, walletDetails, scanLockPerChain,
          scanCall, emitted, query, successive, tx, applied, replay>>

----------------------------------------------------------------------------
(* Bounds of the model *)

MaxLeaves == 3       \* commitments appended to one chain's mirror
TreeDepth == 1       \* a tree holds 2^TreeDepth leaves (depths.erc20 in the source)
gapLimit == 2        \* the wallet's gapLimit constructor argument
MaxIndex == 3        \* derivation indices 0..MaxIndex receive notes
NumTokens == 2       \* token addresses 1..NumTokens
MaxAmount == 2       \* note amounts 1..MaxAmount
NumSlots == 2        \* concurrent invocations of scan

AllChains == {1, 2}  \* the chain IDs a wallet may have a tree loaded for
Slots == 1..NumSlots
TreeCapacity == 2 ^ TreeDepth

----------------------------------------------------------------------------
(* Generic helpers *)

\* The sequences of at most n elements of S.
SeqsOver(S, n) == UNION {[1..k -> S] : k \in 0..n}

Max(S) == CHOOSE x \in S : \A y \in S : y <= x

RECURSIVE SumSeq(_)
SumSeq(s) == IF s = <<>> THEN 0 ELSE Head(s) + SumSeq(Tail(s))

Range(f) == {f[x] : x \in DOMAIN f}

----------------------------------------------------------------------------
(* Keys, notes and leaves *)

\* Bytes are 0..MaxByte and 255; a public key holds up to MaxBytes of them.
MaxByte == 2
MaxBytes == 2

ByteValues == (0..MaxByte) \cup {255}

\* bytes.hexlify of an array of bytes: two hexadecimal digits a byte.
hexlify(array) ==
    [i \in 1..(2 * Len(array)) |->
        IF i % 2 = 1 THEN array[(i + 1) \div 2] \div 16 ELSE array[i \div 2] % 16]

\* The encryption key the wallet was loaded with, and keys that are not it:
\* its bytes in another order, and its first byte alone.
WalletEncryptionKey == <<1, 2>>

WrongEncryptionKeys == {<<2, 1>>, <<1>>}

\* A plausible slip: the encryption key is not compared.
NoKeyError(encryptionKey) == ""

\* The check getKeypair starts with, and getViewKey through it: the error
\* thrown, "" when the key is the wallet's and a key pair is returned.
KeyError(encryptionKey) ==
    IF hexlify(encryptionKey) # hexlify(WalletEncryptionKey) THEN "Wrong encryption key"
    ELSE ""

\* The key pair at a derivation index of the primary (change = FALSE) or the
\* change node.  Key pairs are numbered; distinct (index, change) give
\* distinct keys.  The public and the private key carry the same number.
getKeypair(index, change) == 2 * index + (IF change THEN 2 ELSE 1)

\* A public key no derivation index of this wallet yields.
ForeignKey == 0

\* ERC20Note.getNullifier(privateKey, tree, position)
getNullifier(privateKey, tree, position) == <<privateKey, tree, position>>

\* A commitment of the mirror.  bad marks a leaf whose deserialization or
\* decryption raises (an invalid sender point, a malformed note).
Leaf(pubkey, token, amount, bad) ==
    [pubkey |-> pubkey, token |-> token, amount |-> amount, bad |-> bad]

WalletKeys == {getKeypair(i, ch) : i \in 0..MaxIndex, ch \in BOOLEAN}

\* Leaves addressed to the first key: one per token, and the first token in
\* every amount.
ValueLeaves ==
    {Leaf(getKeypair(0, FALSE), tk, 1, FALSE) : tk \in 1..NumTokens}
        \cup {Leaf(getKeypair(0, FALSE), 1, a, FALSE) : a \in 1..MaxAmount}

\* A note of the wallet, a note of somebody else, and a leaf that raises.
OwnLeaf == Leaf(getKeypair(0, FALSE), 1, 1, FALSE)
ForeignLeaf == Leaf(ForeignKey, 1, 1, FALSE)
BadLeaf == Leaf(ForeignKey, 1, 1, TRUE)

\* Leaves that differ in their recipient; one token, one amount.
RecipientLeaves ==
    {Leaf(k, 1, 1, FALSE) : k \in WalletKeys} \cup {ForeignLeaf, BadLeaf}

----------------------------------------------------------------------------
(* The merkle tree mirror *)

\* MerkleTree.latestTree()
latestTree(chainID) == Len(merkletree[chainID]) - 1

\* MerkleTree.getTreeLength(tree)
getTreeLength(chainID, tree) ==
    IF tree + 1 <= Len(merkletree[chainID])
    THEN Len(merkletree[chainID][tree + 1]) ELSE 0

\* MerkleTree.getCommitment(tree, index)
getCommitment(chainID, tree, index) == merkletree[chainID][tree + 1][index + 1]

\* MerkleTree.getNullified(nullifier): the spending txid, "" when unseen.
getNullified(chainID, nullifier) ==
    IF nullifier \in nullifiers[chainID] THEN "txid" ELSE ""

NumLeaves(chainID) ==
    SumSeq([t \in 1..Len(merkletree[chainID]) |-> Len(merkletree[chainID][t])])

\* The positions <<tree, position>> of a chain's mirror.
Positions(chainID) ==
    {<<t, p>> \in (0..MaxLeaves) \X (0..(TreeCapacity - 1)) :
        p < getTreeLength(chainID, t)}

\* A commitment event: the leaf goes to the next position of the latest
\* tree, or opens a new tree when the latest one is full.
AppendLeaf(chainID, leaf) ==
    LET trees == merkletree[chainID]
        last == trees[Len(trees)]
    IN  /\ NumLeaves(chainID) < MaxLeaves
        /\ merkletree' = [merkletree EXCEPT ![chainID] =
              IF Len(last) < TreeCapacity
              THEN [trees EXCEPT ![Len(trees)] = Append(last, leaf)]
              ELSE Append(trees, <<leaf>>)]

\* A nullifier event for one of the wallet's notes.
MarkNullified(chainID, tree, position) ==
    LET leaf == getCommitment(chainID, tree, position)
        n == getNullifier(leaf.pubkey, tree, position)
    IN  /\ leaf.pubkey # ForeignKey
        /\ n \notin nullifiers[chainID]
        /\ nullifiers' = [nullifiers EXCEPT ![chainID] = @ \cup {n}]

----------------------------------------------------------------------------
(* The key-value store *)

\* Database.batch / Database.put: puts is a function from keys to values.
dbPut(store, puts) ==
    [k \in DOMAIN store \cup DOMAIN puts |->
        IF k \in DOMAIN puts THEN puts[k] ELSE store[k]]

NoRecords == [k \in {} |-> 0]

\* Wallet.getWalletDetails's defaults
DefaultWalletDetails ==
    [treeScannedHeights |-> <<>>, primaryHeight |-> 0, changeHeight |-> 0]

----------------------------------------------------------------------------
(* Wallet.scanIndex, Wallet.scanLeaves *)

\* The sparse array scan builds for a tree: length is the tree's length and
\* items holds the fetched leaves, positions scannedHeight .. length - 1.
FetchLeaves(chainID, tree, scannedHeight) ==
    LET n == getTreeLength(chainID, tree)
    IN  [length |-> n,
         items |-> [p \in scannedHeight..(n - 1) |-> getCommitment(chainID, tree, p)]]

\* scanIndex raises when deserializing or decrypting a leaf raises; the
\* write batch of that call is then never written.
scanIndexThrows(leaves) == \E p \in DOMAIN leaves.items : leaves.items[p].bad

\* The write batch of scanIndex: one put per leaf addressed to the key.
scanIndexBatch(index, change, leaves, tree, chainID) ==
    LET key == getKeypair(index, change)
        mine == {p \in DOMAIN leaves.items : leaves.items[p].pubkey = key}
    IN  [k \in {<<chainID, tree, p>> : p \in mine} |->
            [index |-> index,
             change |-> change,
             spendtxid |-> "",
             nullifier |-> getNullifier(key, tree, k[3]),
             token |-> leaves.items[k[3]].token,
             amount |-> leaves.items[k[3]].amount]]

\* scanIndex's return value: whether it found a leaf it could decrypt.
scanIndex(index, change, leaves, tree, chainID) ==
    DOMAIN scanIndexBatch(index, change, leaves, tree, chainID) # {}

\* The indices one pass of scanLeaves visits.
PassIndexes(height) == 0..(height + gapLimit)

\* A plausible slip: indexOf in place of lastIndexOf.
firstIndexOfTrue(used) == IF used = {} THEN 0 ELSE 0 - Max({0 - i : i \in used})

\* The height after a pass: usedIndexes.lastIndexOf(true), 0 when there is
\* none.
lastIndexOfTrue(used) == IF used = {} THEN 0 ELSE Max(used)

\* The locals of scanLeaves before its loop: used is the set of indices at
\* which usedIndexes holds true, usedLength is usedIndexes.length, scanned the
\* indices scanIndex was started for so far.
scanLeavesStart(initialHeight) ==
    [used |-> {}, usedLength |-> 0, height |-> initialHeight, scanned |-> {}]

\* scanLeaves's test of its while loop.
scanLeavesGoesOn(loop) == loop.usedLength < loop.height + gapLimit

\* One pass of scanLeaves's while loop.
scanLeavesPass(loop, leaves, change, tree, chainID) ==
    LET visit == PassIndexes(loop.height)
        used2 == loop.used
                     \cup {i \in visit : scanIndex(i, change, leaves, tree, chainID)}
    IN  [used |-> used2,
         usedLength |-> loop.height + gapLimit + 1,
         height |-> lastIndexOfTrue(used2),
         scanned |-> loop.scanned \cup (visit \ loop.used)]

\* scanLeaves's while loop.
RECURSIVE scanLeavesLoop(_, _, _, _, _, _, _, _)
scanLeavesLoop(used, usedLength, height, scanned, leaves, change, tree, chainID) ==
    LET loop == [used |-> used, usedLength |-> usedLength, height |-> height,
                 scanned |-> scanned]
        next == scanLeavesPass(loop, leaves, change, tree, chainID)
    IN  IF scanLeavesGoesOn(loop)
        THEN scanLeavesLoop(next.used, next.usedLength, next.height, next.scanned,
                            leaves, change, tree, chainID)
        ELSE [height |-> height, scanned |-> scanned]

\* scanLeaves: the new height and everything its scanIndex calls wrote.
scanLeaves(leaves, change, initialHeight, tree, chainID) ==
    LET end == scanLeavesLoop({}, 0, initialHeight, {}, leaves, change, tree, chainID)
        keys == UNION {DOMAIN scanIndexBatch(i, change, leaves, tree, chainID) :
                          i \in end.scanned}
    IN  [height |-> end.height,
         scanned |-> end.scanned,
         writes |-> [k \in keys |->
             LET i == CHOOSE i \in end.scanned :
                         k \in DOMAIN scanIndexBatch(i, change, leaves, tree, chainID)
             IN  scanIndexBatch(i, change, leaves, tree, chainID)[k]]]

----------------------------------------------------------------------------
(* Wallet.scan *)

IdleCall ==
    [pc |-> "idle", ret |-> "none", chainID |-> 1,
     walletDetails |-> DefaultWalletDetails, tree |-> 0,
     loaded |-> DefaultWalletDetails, lengths |-> <<>>]

Running(s) == scanCall[s].pc # "idle"

\* successive follows two scans of a chain that run to completion one after
\* the other with no other operation from the first one's call on: stage is
\* "first" and "second" while they run, "once" and "twice" when they have
\* completed; db and walletDetails are the store as the first one left it.
\* Every other operation sets it back.
NotSuccessive == [stage |-> "none", chainID |-> 1, db |-> NoRecords,
                  walletDetails |-> DefaultWalletDetails]

\* A plausible slip: the lock is never looked at.
NeverLocked(chainID) == FALSE

\* scan's test of the per-chain lock.
Locked(chainID) == scanLockPerChain[chainID]

\* The lengths of the trees of a chain's mirror.
TreeLengths(chainID) ==
    [t \in 1..Len(merkletree[chainID]) |-> Len(merkletree[chainID][t])]

\* scan up to its first await: return at once when the chain is locked,
\* otherwise take the lock.  A call that returns as locked reads nothing;
\* lengths keeps for it what the mirror held when it was made.
ScanCall(s, chainID) ==
    /\ ~Running(s)
    /\ emitted' = {}
    /\ UNCHANGED <<replay, applied, tx, merkletree, nullifiers, db, walletDetails, query>>
    /\ IF Locked(chainID)
       THEN /\ scanCall' = [scanCall EXCEPT ![s] =
                   [IdleCall EXCEPT !.ret = "locked", !.chainID = chainID,
                                    !.lengths = TreeLengths(chainID)]]
            /\ successive' = NotSuccessive
            /\ UNCHANGED scanLockPerChain
       ELSE /\ scanLockPerChain' = [scanLockPerChain EXCEPT ![chainID] = TRUE]
            /\ scanCall' = [scanCall EXCEPT ![s] =
                   [IdleCall EXCEPT !.pc = "details", !.chainID = chainID]]
            /\ successive' =
                   IF successive.stage \in {"once", "twice"} /\ successive.chainID = chainID
                   THEN [stage |-> "second", chainID |-> chainID, db |-> db,
                         walletDetails |-> walletDetails]
                   ELSE IF successive.stage = "none"
                   THEN [NotSuccessive EXCEPT !.stage = "first", !.chainID = chainID]
                   ELSE NotSuccessive

\* treeScannedHeights extended with zeros to latestTree + 1 entries.
RefreshTrees(heights, latest) ==
    [t \in 1..(IF Len(heights) < latest + 1 THEN latest + 1 ELSE Len(heights)) |->
        IF t <= Len(heights) THEN heights[t] ELSE 0]

\* getWalletDetails, latestTree, and the refresh of the list of trees.
ScanDetails(s) ==
    LET call == scanCall[s]
        chainID == call.chainID
    IN  /\ call.pc = "details"
        /\ scanCall' = [scanCall EXCEPT ![s] =
               [call EXCEPT
                   !.pc = "tree",
                   !.tree = 0,
                   !.walletDetails =
                       [walletDetails EXCEPT !.treeScannedHeights =
                           RefreshTrees(@, latestTree(chainID))],
                   !.loaded = walletDetails,
                   !.lengths = TreeLengths(chainID)]]
        /\ emitted' = {}
        /\ UNCHANGED <<replay, applied, tx, merkletree, nullifiers, db, walletDetails,
                       scanLockPerChain, query, successive>>

\* walletDetails after one tree of scan's loop.
ScannedTree(details, tree, leaves, primary, change) ==
    [treeScannedHeights |->
        [details.treeScannedHeights EXCEPT ![tree + 1] =
            IF leaves.length > 0 THEN leaves.length - 1 ELSE 0],
     primaryHeight |-> primary.height,
     changeHeight |-> change.height]

\* The height the change sweep of a tree starts from.
ChangeInitialHeight(details) == details.primaryHeight

\* One iteration of scan's loop over the trees: fetch the leaves from the
\* scanned height on, sweep the primary and the change indices, take the
\* new heights.  A leaf that raises rejects scan: nothing is written and the
\* rest of scan, the release of the lock included, never runs.
ScanTree(s) ==
    LET call == scanCall[s]
        chainID == call.chainID
        details == call.walletDetails
        tree == call.tree
        leaves == FetchLeaves(chainID, tree, details.treeScannedHeights[tree + 1])
        primary == scanLeaves(leaves, FALSE, details.primaryHeight, tree, chainID)
        change == scanLeaves(leaves, TRUE, ChangeInitialHeight(details), tree, chainID)
    IN  /\ call.pc = "tree"
        /\ emitted' = {}
        /\ UNCHANGED <<replay, applied, tx, merkletree, nullifiers, walletDetails, query>>
        /\ IF scanIndexThrows(leaves)
           THEN /\ scanCall' = [scanCall EXCEPT ![s] =
                       [IdleCall EXCEPT !.ret = "rejected", !.chainID = chainID]]
                /\ successive' = NotSuccessive
                /\ UNCHANGED <<db, scanLockPerChain>>
           ELSE /\ db' = dbPut(dbPut(db, primary.writes), change.writes)
                /\ scanCall' = [scanCall EXCEPT ![s] =
                       [call EXCEPT
                           !.walletDetails =
                               ScannedTree(details, tree, leaves, primary, change),
                           !.tree = tree + 1,
                           !.pc = IF tree + 1 < Len(details.treeScannedHeights)
                                  THEN "tree" ELSE "persist"]]
                /\ UNCHANGED <<scanLockPerChain, successive>>

\* The end of scan: write the wallet details, emit 'scanned', release the lock.
ScanPersist(s) ==
    LET call == scanCall[s]
        chainID == call.chainID
    IN  /\ call.pc = "persist"
        /\ walletDetails' = call.walletDetails
        /\ emitted' = {chainID}
        /\ scanLockPerChain' = [scanLockPerChain EXCEPT ![chainID] = FALSE]
        /\ scanCall' = [scanCall EXCEPT ![s] =
               [IdleCall EXCEPT !.ret = "scanned", !.chainID = chainID]]
        /\ successive' =
               IF successive.stage = "second" /\ successive.chainID = chainID
               THEN [successive EXCEPT !.stage = "twice"]
               ELSE IF successive.stage = "first" /\ successive.chainID = chainID
               THEN [stage |-> "once", chainID |-> chainID, db |-> db,
                     walletDetails |-> call.walletDetails]
               ELSE NotSuccessive
        /\ UNCHANGED <<replay, applied, tx, merkletree, nullifiers, db, query>>

----------------------------------------------------------------------------
(* Wallet.TXOs, Wallet.balances, Wallet.balancesByTree *)

\* The keys streamNamespace yields for a chain, in the store's key order.
RECURSIVE StreamKeys(_)
StreamKeys(keys) ==
    IF keys = {} THEN <<>>
    ELSE LET first == CHOOSE k \in keys : \A o \in keys :
                          k[2] < o[2] \/ (k[2] = o[2] /\ k[3] <= o[3])
         IN  <<first>> \o StreamKeys(keys \ {first})

ChainKeys(store, chainID) == {k \in DOMAIN store : k[1] = chainID}

\* A plausible slip: the nullifier index is not consulted.
NeverCheckSpent(record, chainID) == record

\* A plausible slip: the answer of the nullifier index is not tested.
CheckSpentUnseen(record, chainID) ==
    IF record.spendtxid = "" THEN [record EXCEPT !.spendtxid = "txid"] ELSE record

\* The record TXOs holds for a key after its check of the nullifier index.
CheckSpent(record, chainID) ==
    IF record.spendtxid = "" /\ getNullified(chainID, record.nullifier) # ""
    THEN [record EXCEPT !.spendtxid = getNullified(chainID, record.nullifier)]
    ELSE record

\* The element of TXOs' result for a key.
TXO(key, record) ==
    [tree |-> key[2], position |-> key[3], index |-> record.index,
     change |-> record.change, spendtxid |-> record.spendtxid,
     token |-> record.token, amount |-> record.amount]

\* A plausible slip: spent outputs are counted too.
AlwaysUnspent(txOutput) == TRUE

\* Whether balances counts a TXO.
Unspent(txOutput) == txOutput.spendtxid = ""

\* balances: the forEach over TXOs' result.
RECURSIVE balances(_, _)
balances(TXOs, acc) ==
    IF TXOs = <<>> THEN acc
    ELSE LET txOutput == Head(TXOs)
             entry == IF txOutput.token \in DOMAIN acc
                      THEN acc[txOutput.token]
                      ELSE [balance |-> 0, utxos |-> <<>>]
             next == IF Unspent(txOutput)
                     THEN [balance |-> entry.balance + txOutput.amount,
                           utxos |-> Append(entry.utxos, txOutput)]
                     ELSE entry
         IN  balances(Tail(TXOs),
                      [tk \in DOMAIN acc \cup {txOutput.token} |->
                          IF tk = txOutput.token THEN next ELSE acc[tk]])

\* balancesByTree's inner forEach: one token's utxos sorted by tree.  The
\* result is a sparse array: its domain holds the trees that have an entry.
RECURSIVE sortByTree(_, _)
sortByTree(utxos, acc) ==
    IF utxos = <<>> THEN acc
    ELSE LET utxo == Head(utxos)
             next == IF utxo.tree \notin DOMAIN acc
                     THEN [balance |-> utxo.amount, utxos |-> <<utxo>>]
                     ELSE [balance |-> acc[utxo.tree].balance + utxo.amount,
                           utxos |-> Append(acc[utxo.tree].utxos, utxo)]
         IN  sortByTree(Tail(utxos),
                        [t \in DOMAIN acc \cup {utxo.tree} |->
                            IF t = utxo.tree THEN next ELSE acc[t]])

balancesByTree(tokenBalances) ==
    [token \in DOMAIN tokenBalances |->
        sortByTree(tokenBalances[token].utxos, NoRecords)]

IdleQuery ==
    [pc |-> "idle", chainID |-> 1, keys |-> <<>>, pending |-> {},
     TXOs |-> NoRecords, nullified |-> {},
     balances |-> NoRecords, balancesByTree |-> NoRecords]

\* balancesByTree (through balances and TXOs) up to the end of the key stream.
QueryCall(chainID) ==
    /\ query.pc = "idle"
    /\ query' = [IdleQuery EXCEPT
           !.pc = "keys",
           !.chainID = chainID,
           !.keys = StreamKeys(ChainKeys(db, chainID)),
           !.pending = ChainKeys(db, chainID),
           !.nullified = nullifiers[chainID]]
    /\ emitted' = {}
    /\ successive' = NotSuccessive
    /\ UNCHANGED <<replay, applied, tx, merkletree, nullifiers, db, walletDetails, scanLockPerChain, scanCall>>

\* TXOs' callback for one key: read the record, look an unspent one up in
\* the nullifier index, write it back when it is spent by now.
TXOsKey(key) ==
    LET record == CheckSpent(db[key], query.chainID)
    IN  /\ query.pc = "keys"
        /\ key \in query.pending
        /\ db' = IF record # db[key] THEN dbPut(db, [k \in {key} |-> record]) ELSE db
        /\ query' = [query EXCEPT
               !.pending = @ \ {key},
               !.TXOs = dbPut(@, [k \in {key} |-> TXO(key, record)])]
        /\ emitted' = {}
        /\ successive' = NotSuccessive
        /\ UNCHANGED <<replay, applied, tx, merkletree, nullifiers, walletDetails, scanLockPerChain, scanCall>>

\* Promise.all has resolved: balances and balancesByTree run to their return.
QueryReturn ==
    LET TXOs == [i \in 1..Len(query.keys) |-> query.TXOs[query.keys[i]]]
        tokenBalances == balances(TXOs, NoRecords)
    IN  /\ query.pc = "keys"
        /\ query.pending = {}
        /\ query' = [query EXCEPT
               !.pc = "returned",
               !.balances = tokenBalances,
               !.balancesByTree = balancesByTree(tokenBalances)]
        /\ emitted' = {}
        /\ successive' = NotSuccessive
        /\ UNCHANGED <<replay, applied, tx, merkletree, nullifiers, db, walletDetails, scanLockPerChain, scanCall>>

\* The caller has taken the result.
QueryDone ==
    /\ query.pc = "returned"
    /\ query' = IdleQuery
    /\ emitted' = {}
    /\ UNCHANGED <<replay, applied, tx, merkletree, nullifiers, db, walletDetails, scanLockPerChain,
                   scanCall, successive>>

----------------------------------------------------------------------------
(* The mirror's merkle hashes *)

\* The hash of two nodes, taken to be free of collisions.
Hash(left, right) == <<"hash", left, right>>

\* The value of an empty leaf.
ZeroValue == <<"zero">>

\* The commitment hash of a note.
NoteHash(pubkey, token, amount) == <<"note", pubkey, token, amount>>

\* The node at a level (0 = the leaves) and an index of a tree.
RECURSIVE Node(_, _, _)
Node(leaves, level, index) ==
    IF level = 0
    THEN IF index < Len(leaves)
         THEN NoteHash(leaves[index + 1].pubkey, leaves[index + 1].token,
                       leaves[index + 1].amount)
         ELSE ZeroValue
    ELSE Hash(Node(leaves, level - 1, 2 * index),
              Node(leaves, level - 1, 2 * index + 1))

\* MerkleTree.getRoot(tree)
getRoot(chainID, tree) == Node(merkletree[chainID][tree + 1], TreeDepth, 0)

Sibling(index) == IF index % 2 = 0 THEN index + 1 ELSE index - 1

\* MerkleTree.getProof(tree, position): elements[l] is the sibling at level l - 1.
getProof(chainID, tree, position) ==
    [elements |-> [l \in 1..TreeDepth |->
                      Node(merkletree[chainID][tree + 1], l - 1,
                           Sibling(position \div (2 ^ (l - 1))))],
     indices |-> position]

\* The root a leaf, its position and its path elements hash up to.
RECURSIVE RootOfPath(_, _, _)
RootOfPath(leaf, position, elements) ==
    IF elements = <<>> THEN leaf
    ELSE RootOfPath(IF position % 2 = 0 THEN Hash(leaf, Head(elements))
                                        ELSE Hash(Head(elements), leaf),
                    position \div 2, Tail(elements))

----------------------------------------------------------------------------
(* Prover *)

\* The coordinates of a proof run over 9..(9 + MaxCoord): decimal strings of
\* one and of two digits.
MaxCoord == 1

Coordinates == {9 + k : k \in 0..MaxCoord}

\* A number as the decimal string BN.toString(10) gives: its digits.
RECURSIVE toString10(_)
toString10(n) ==
    IF n < 10 THEN <<n>> ELSE Append(toString10(n \div 10), n % 10)

\* new BN(string) of a decimal string.
RECURSIVE BN(_)
BN(string) ==
    IF string = <<>> THEN 0
    ELSE 10 * BN(SubSeq(string, 1, Len(string) - 1)) + string[Len(string)]

\* The proofs groth16.prove can yield: points and pairs of decimal strings.
Points == {<<toString10(x), toString10(y)>> : x, y \in Coordinates}

Proofs == [pi_a : Points, pi_b : Points \X Points, pi_c : Points]

\* sha256 of the padded fields, taken to be free of collisions.
sha256(preimage) == <<"sha256", preimage>>

\* Prover.privateToPublicInputs
privateToPublicInputs(inputs) ==
    [adaptID |-> inputs.adaptID,
     depositAmount |-> inputs.depositAmount,
     withdrawAmount |-> inputs.withdrawAmount,
     outputTokenField |-> inputs.outputTokenField,
     outputEthAddress |-> inputs.outputEthAddress,
     treeNumber |-> inputs.treeNumber,
     merkleRoot |-> inputs.merkleRoot,
     nullifiers |-> inputs.nullifiers,
     commitmentsOut |-> inputs.commitmentsOut,
     ciphertextHash |-> inputs.ciphertextHash]

\* Prover.hashInputs
hashInputs(inputs) ==
    sha256(<<inputs.adaptID, inputs.depositAmount, inputs.withdrawAmount,
             inputs.outputTokenField, inputs.outputEthAddress, inputs.treeNumber,
             inputs.merkleRoot>> \o inputs.nullifiers \o inputs.commitmentsOut
           \o <<inputs.ciphertextHash>>)

\* The proof as Prover.prove formats groth16's: numbers, each G2 pair swapped.
formatProof(proof) ==
    [a |-> <<BN(proof.pi_a[1]), BN(proof.pi_a[2])>>,
     b |-> << <<BN(proof.pi_b[1][2]), BN(proof.pi_b[1][1])>>,
              <<BN(proof.pi_b[2][2]), BN(proof.pi_b[2][1])>> >>,
     c |-> <<BN(proof.pi_c[1]), BN(proof.pi_c[2])>>]

\* A plausible slip: verify hands the G2 pairs over as they are stored.
verifyFormatKeepsPairs(proof) ==
    [pi_a |-> <<toString10(proof.a[1]), toString10(proof.a[2])>>,
     pi_b |-> << <<toString10(proof.b[1][1]), toString10(proof.b[1][2])>>,
                 <<toString10(proof.b[2][1]), toString10(proof.b[2][2])>> >>,
     pi_c |-> <<toString10(proof.c[1]), toString10(proof.c[2])>>]

\* The proof as Prover.verify formats it for groth16.verify.
verifyFormat(proof) ==
    [pi_a |-> <<toString10(proof.a[1]), toString10(proof.a[2])>>,
     pi_b |-> << <<toString10(proof.b[1][2]), toString10(proof.b[1][1])>>,
                 <<toString10(proof.b[2][2]), toString10(proof.b[2][1])>> >>,
     pi_c |-> <<toString10(proof.c[1]), toString10(proof.c[2])>>]

\* groth16.prove: for a circuit and the witness of the inputs it yields the
\* proof native; sound tells whether the witness satisfies the circuit.
groth16prove(circuit, inputs, native, sound) ==
    [circuit |-> circuit, publicSignals |-> <<hashInputs(privateToPublicInputs(inputs))>>,
     proof |-> native, sound |-> sound]

\* groth16.verify(vkey, publicSignals, proof): it accepts the proof that
\* groth16.prove made from a satisfying witness of the circuit of the key, for
\* the public signals of that witness, and no other.
groth16verify(proved, circuit, publicSignals, proof) ==
    /\ proved.sound
    /\ proved.circuit = circuit
    /\ proved.publicSignals = publicSignals
    /\ proved.proof = proof

\* Prover.verify
verify(proved, circuit, inputs, proof) ==
    groth16verify(proved, circuit, <<hashInputs(inputs)>>, verifyFormat(proof))

\* A plausible slip: the outcome of the self-verification is not looked at.
NeverRejected(verified) == FALSE

\* Prover.prove's test of its self-verification.
ProofRejected(verified) == ~verified

\* Prover.prove: what it returns or throws, and what it handed to
\* groth16.verify on the way.
prove(circuit, inputs, native, sound) ==
    LET proved == groth16prove(circuit, inputs, native, sound)
        publicInputs == privateToPublicInputs(inputs)
        proofFormatted == formatProof(proved.proof)
        verified == verify(proved, circuit, publicInputs, proofFormatted)
    IN  IF ProofRejected(verified)
        THEN [ok |-> FALSE, error |-> "Proof generation failed", proof |-> <<>>,
              inputs |-> <<>>, formatted |-> proofFormatted,
              verifier |-> verifyFormat(proofFormatted), proved |-> proved]
        ELSE [ok |-> TRUE, error |-> "", proof |-> proofFormatted,
              inputs |-> publicInputs, formatted |-> proofFormatted,
              verifier |-> verifyFormat(proofFormatted), proved |-> proved]

----------------------------------------------------------------------------
(* ERC20Transaction.generateInputs *)

NOTE_INPUTS_small == 2
NOTE_INPUTS_large == 10
NOTE_OUTPUTS == 3

\* this.tree when the constructor was given no tree, and findIndex's result
\* when no element matches.
NoTree == -1

\* findIndex reached a hole of the sparse array: value.length raises.
HoleIndex == -2

\* A fresh random key, distinct from every key of the wallet; 0 stands for
\* the dummyKey field a real TXO does not have.
DummyKey(n) == 0 - n

\* The locals of a call of ERC20Transaction.prove; before is what the wallet
\* had persisted when the call was made.

IdleTx ==
    [pc |-> "idle", error |-> "", chainID |-> 1, token |-> 1, outputs |-> <<>>,
     deposit |-> 0, withdraw |-> 0, withdrawAddress |-> FALSE, pinned |-> NoTree,
     encryptionKey |-> WalletEncryptionKey, before |-> <<>>, tree |-> NoTree, solution |-> <<>>, next |-> 1, pathElements |-> <<>>,
     inputs |-> NoRecords, commitments |-> <<>>, circuit |-> "", proof |-> <<>>]

Amounts(notes) == [i \in 1..Len(notes) |-> notes[i].amount]

\* A plausible slip: only the outputs are counted.
totalRequiredOfOutputs(outputs, withdraw, deposit) == SumSeq(Amounts(outputs))

totalRequired(outputs, withdraw, deposit) ==
    SumSeq(Amounts(outputs)) + withdraw - deposit

\* Array.sort with the comparator of generateInputs: by amount, largest
\* first, equal amounts in their former order.
RECURSIVE SortBySize(_)
SortBySize(utxos) ==
    IF utxos = <<>> THEN <<>>
    ELSE LET largest == Max(Range(Amounts(utxos)))
             i == CHOOSE i \in 1..Len(utxos) :
                      /\ utxos[i].amount = largest
                      /\ \A j \in 1..(i - 1) : utxos[j].amount # largest
         IN  <<utxos[i]>> \o
             SortBySize(SubSeq(utxos, 1, i - 1) \o SubSeq(utxos, i + 1, Len(utxos)))

\* A TXO as an input of the transaction.
RealInput(utxo) ==
    [tree |-> utxo.tree, position |-> utxo.position, index |-> utxo.index,
     change |-> utxo.change, spendtxid |-> utxo.spendtxid, token |-> utxo.token,
     amount |-> utxo.amount, dummyKey |-> 0]

\* The dummy note fillUTXOs pushes as element n of the input list.
DummyInput(tree, token, n) ==
    [tree |-> tree, position |-> 0, index |-> 0, change |-> FALSE,
     spendtxid |-> "", token |-> token, amount |-> 0, dummyKey |-> DummyKey(n)]

\* A plausible slip: the padding is taken from the front of the sorted notes.
fillUTXOsFromFront(utxos, sorted, length, tree, token) ==
    IF Len(sorted) < length
    THEN sorted \o [n \in 1..(length - Len(sorted)) |->
                       DummyInput(tree, token, Len(sorted) + n)]
    ELSE utxos \o [cursor \in 1..(length - Len(utxos)) |-> sorted[cursor]]

\* fillUTXOs(length), given the accumulated utxos and the tree's sorted ones.
fillUTXOs(utxos, sorted, length, tree, token) ==
    IF Len(sorted) < length
    THEN sorted \o [n \in 1..(length - Len(sorted)) |->
                       DummyInput(tree, token, Len(sorted) + n)]
    ELSE utxos \o [cursor \in 1..(length - Len(utxos)) |->
                      sorted[Len(sorted) - cursor + 1]]

\* The callback of treeSortedBalances.map for one tree.
Solution(treeBalance, tree, required, token) ==
    IF treeBalance.balance < required THEN <<>>
    ELSE LET all == [i \in 1..Len(treeBalance.utxos) |-> RealInput(treeBalance.utxos[i])]
             sorted == SortBySize(all)
             enough == {n \in 0..Len(sorted) :
                           SumSeq(Amounts(SubSeq(sorted, 1, n))) >= required}
             n == CHOOSE n \in enough : \A m \in enough : n <= m
             utxos == SubSeq(sorted, 1, n)
         IN  IF n <= NOTE_INPUTS_small
             THEN fillUTXOs(utxos, sorted, NOTE_INPUTS_small, tree, token)
             ELSE IF n <= NOTE_INPUTS_large
             THEN fillUTXOs(utxos, sorted, NOTE_INPUTS_large, tree, token)
             ELSE <<>>

\* solutions.findIndex((value) => value.length > 0) over a sparse array.
RECURSIVE findIndex(_, _, _)
findIndex(solutions, from, length) ==
    IF from >= length THEN NoTree
    ELSE IF from \notin DOMAIN solutions THEN HoleIndex
    ELSE IF Len(solutions[from]) > 0 THEN from
    ELSE findIndex(solutions, from + 1, length)

\* The call ends with a thrown error.
Fail(call, error) == [call EXCEPT !.pc = "failed", !.error = error]

Failed(error) == Fail(tx, error)

\* The loop over the inputs from input i up to the next await: a dummy
\* input gets its path elements at once, a real one asks the wallet for its
\* key pair and waits for getProof.  After the loop the wallet is asked for
\* the key pair of the change note and for the view key, before getRoot is
\* awaited.
RECURSIVE RunInputs(_, _)
RunInputs(call, i) ==
    IF i > Len(call.solution)
    THEN IF KeyError(call.encryptionKey) # ""
         THEN Fail([call EXCEPT !.next = i], KeyError(call.encryptionKey))
         ELSE [call EXCEPT !.pc = "root", !.next = i]
    ELSE IF call.solution[i].dummyKey # 0
    THEN RunInputs([call EXCEPT !.pathElements =
                       Append(@, [l \in 1..TreeDepth |-> ZeroValue])], i + 1)
    ELSE IF KeyError(call.encryptionKey) # ""
    THEN Fail([call EXCEPT !.next = i], KeyError(call.encryptionKey))
    ELSE [call EXCEPT !.pc = "proofs", !.next = i]

\* generateInputs up to its await of wallet.balancesByTree.
TxCall(encryptionKey, token, outputs, withdraw, deposit, withdrawAddress, pinned) ==
    LET call == [IdleTx EXCEPT !.encryptionKey = encryptionKey,
                     !.before = [db |-> db, walletDetails |-> walletDetails],
                     !.token = token, !.outputs = outputs,
                     !.withdraw = withdraw, !.deposit = deposit,
                     !.withdrawAddress = withdrawAddress, !.pinned = pinned]
        rejected ==
            IF Len(outputs) > 2 THEN "Too many outputs specified"
            ELSE IF \E i \in 1..Len(outputs) : outputs[i].token # token
            THEN "TokenID mismatch on output"
            ELSE ""
    IN  /\ tx.pc = "idle"
        /\ query.pc = "idle"
        /\ IF rejected # ""
           THEN /\ tx' = [call EXCEPT !.pc = "failed", !.error = rejected]
                /\ UNCHANGED query
           ELSE /\ tx' = [call EXCEPT !.pc = "balances"]
                /\ query' = [IdleQuery EXCEPT
                       !.pc = "keys",
                       !.chainID = call.chainID,
                       !.keys = StreamKeys(ChainKeys(db, call.chainID)),
                       !.pending = ChainKeys(db, call.chainID),
                       !.nullified = nullifiers[call.chainID]]
        /\ emitted' = {}
        /\ successive' = NotSuccessive
        /\ UNCHANGED <<replay, applied, merkletree, nullifiers, db, walletDetails, scanLockPerChain, scanCall>>

\* A plausible slip: the withdraw address is not checked.
NoWithdrawError(call) == ""

\* The checks of the withdraw address: the error thrown, "" when none is.
WithdrawError(call) ==
    IF call.withdraw > 0 /\ ~call.withdrawAddress THEN "Withdraw address not set"
    ELSE IF call.withdraw = 0 /\ call.withdrawAddress THEN "Withdraw shouldn't be set"
    ELSE ""

\* generateInputs from the result of balancesByTree to the first await of
\* getProof (or of getRoot when no input is real), or to the error thrown on
\* the way.  treeSortedBalances is a sparse array: a function on the trees
\* that have an element.
Select(call, treeSortedBalances) ==
    LET trees == StreamKeys({<<call.chainID, t, 0>> : t \in DOMAIN treeSortedBalances})
        balance == SumSeq([i \in 1..Len(trees) |-> treeSortedBalances[trees[i][2]].balance])
        required == totalRequired(call.outputs, call.withdraw, call.deposit)
        solutions == [t \in DOMAIN treeSortedBalances |->
                         Solution(treeSortedBalances[t], t, required, call.token)]
        length == IF DOMAIN solutions = {} THEN 0 ELSE Max(DOMAIN solutions) + 1
        tree == IF call.pinned > 0 THEN call.pinned ELSE findIndex(solutions, 0, length)
    IN  IF required > balance THEN Fail(call, "Wallet balance too low")
        ELSE IF tree = HoleIndex THEN Fail(call, "TypeError")
        ELSE IF tree = NoTree
        THEN Fail(call, "Balances need to be consolidated before being able to spend this amount")
        ELSE IF WithdrawError(call) # "" THEN Fail(call, WithdrawError(call))
        ELSE IF tree \notin DOMAIN solutions THEN Fail(call, "TypeError")
        ELSE RunInputs([call EXCEPT !.tree = tree, !.solution = solutions[tree]], 1)

\* (await wallet.balancesByTree(chainID))[token] || []
TreeSortedBalances(byTree, token) ==
    IF token \in DOMAIN byTree THEN byTree[token] ELSE NoRecords

\* balancesByTree resolves: generateInputs runs on.
TxSelect ==
    /\ tx.pc = "balances"
    /\ query.pc = "returned"
    /\ query' = IdleQuery
    /\ tx' = Select(tx, TreeSortedBalances(query.balancesByTree, tx.token))
    /\ emitted' = {}
    /\ UNCHANGED <<replay, applied, merkletree, nullifiers, db, walletDetails, scanLockPerChain,
                   scanCall, successive>>

\* getProof resolves for the real input the loop waits for; the loop runs on
\* to the next await.
TxProof ==
    LET utxo == tx.solution[tx.next]
        elements == getProof(tx.chainID, tx.tree, utxo.position).elements
    IN  /\ tx.pc = "proofs"
        /\ tx' = RunInputs([tx EXCEPT !.pathElements = Append(@, elements)], tx.next + 1)
        /\ emitted' = {}
        /\ UNCHANGED <<replay, applied, merkletree, nullifiers, db, walletDetails, scanLockPerChain,
                       scanCall, query, successive>>

\* The key the loop takes for an input.
SpendingKey(utxo) ==
    IF utxo.dummyKey # 0 THEN utxo.dummyKey ELSE getKeypair(utxo.index, utxo.change)

\* A plausible slip: the commitments are not padded with dummy notes.
CommitmentsWithoutDummies(outputs, change, token) ==
    Append(outputs, [pubkey |-> getKeypair(0, TRUE), token |-> token, amount |-> change])

\* The output commitments: the outputs, the change note, dummy notes.
Commitments(outputs, change, token) ==
    LET real == Append(outputs,
                       [pubkey |-> getKeypair(0, TRUE), token |-> token, amount |-> change])
    IN  real \o [n \in 1..(NOTE_OUTPUTS - Len(real)) |->
                    [pubkey |-> DummyKey(NOTE_INPUTS_large + n), token |-> token, amount |-> 0]]

\* The random field of the note of an input, and of output n.
RandomIn(utxo) == <<"random", utxo.tree, utxo.position, utxo.dummyKey>>

RandomOut(n) == <<"random", n>>

\* The hash of the ciphertexts of the commitments.
CiphertextHash(commitments) == sha256(<<"ciphertext", commitments>>)

\* The commitments of a call whose inputs are selected.
CallCommitments(call) ==
    Commitments(call.outputs,
                SumSeq(Amounts(call.solution)) + call.deposit
                    - (SumSeq(Amounts(call.outputs)) + call.withdraw),
                call.token)

\* The circuit inputs generateInputs formats, given the root it read.
Inputs(call, merkleRoot) ==
    LET solution == call.solution
        commitments == CallCommitments(call)
    IN  [adaptID |-> sha256(<<0, 0>>),
         depositAmount |-> call.deposit,
         withdrawAmount |-> call.withdraw,
         tokenField |-> call.token,
         outputTokenField |-> IF call.deposit > 0 \/ call.withdraw > 0 THEN call.token ELSE 0,
         outputEthAddress |-> call.withdrawAddress,
         randomIn |-> [i \in 1..Len(solution) |-> RandomIn(solution[i])],
         valuesIn |-> Amounts(solution),
         spendingKeys |-> [i \in 1..Len(solution) |-> SpendingKey(solution[i])],
         treeNumber |-> call.tree,
         merkleRoot |-> merkleRoot,
         nullifiers |-> [i \in 1..Len(solution) |->
                            getNullifier(SpendingKey(solution[i]), call.tree,
                                         solution[i].position)],
         pathElements |-> call.pathElements,
         pathIndices |-> [i \in 1..Len(solution) |-> solution[i].position],
         recipientPK |-> [i \in 1..Len(commitments) |-> commitments[i].pubkey],
         randomOut |-> [i \in 1..Len(commitments) |-> RandomOut(i)],
         valuesOut |-> Amounts(commitments),
         commitmentsOut |-> [i \in 1..Len(commitments) |->
                                NoteHash(commitments[i].pubkey, commitments[i].token,
                                         commitments[i].amount)],
         ciphertextHash |-> CiphertextHash(commitments)]

\* getRoot resolves: generateInputs returns.
TxRoot ==
    /\ tx.pc = "root"
    /\ tx' = [tx EXCEPT !.pc = "returned",
                        !.inputs = Inputs(tx, getRoot(tx.chainID, tx.tree)),
                        !.commitments = CallCommitments(tx)]
    /\ emitted' = {}
    /\ UNCHANGED <<replay, applied, merkletree, nullifiers, db, walletDetails, scanLockPerChain,
                   scanCall, query, successive>>

\* A plausible slip: the nullifiers are counted against NOTE_INPUTS.large.
CircuitUpToLarge(inputs) ==
    IF Len(inputs.nullifiers) <= NOTE_INPUTS_large THEN "erc20small" ELSE "erc20large"

\* The circuit ERC20Transaction.prove asks the prover for.
Circuit(inputs) ==
    IF Len(inputs.nullifiers) = NOTE_INPUTS_small THEN "erc20small" ELSE "erc20large"

\* ERC20Transaction.prove from the return of generateInputs: the prover is
\* invoked, and its proof returned or its error passed on.
TxProve(native, sound) ==
    LET circuit == Circuit(tx.inputs)
        proof == prove(circuit, tx.inputs, native, sound)
    IN  /\ tx.pc = "returned"
        /\ tx' = IF proof.ok
                 THEN [tx EXCEPT !.pc = "proved", !.circuit = circuit, !.proof = proof.proof]
                 ELSE [tx EXCEPT !.pc = "failed", !.circuit = circuit, !.error = proof.error]
        /\ emitted' = {}
        /\ UNCHANGED <<replay, applied, merkletree, nullifiers, db, walletDetails, scanLockPerChain,
                       scanCall, query, successive>>

\* The caller has taken the result or the error.
TxDone ==
    /\ tx.pc \in {"proved", "failed"}
    /\ tx' = IdleTx
    /\ emitted' = {}
    /\ UNCHANGED <<replay, applied, merkletree, nullifiers, db, walletDetails, scanLockPerChain,
                   scanCall, query, successive>>

----------------------------------------------------------------------------
(* The chain's events reaching the mirror *)

CommitmentEvent(chainID, leaf) ==
    /\ AppendLeaf(chainID, leaf)
    /\ emitted' = {}
    /\ successive' = NotSuccessive
    /\ UNCHANGED <<replay, applied, tx, nullifiers, db, walletDetails, scanLockPerChain, scanCall, query>>

NullifierEvent(chainID, tree, position) ==
    /\ <<tree, position>> \in Positions(chainID)
    /\ MarkNullified(chainID, tree, position)
    /\ emitted' = {}
    /\ successive' = NotSuccessive
    /\ UNCHANGED <<replay, applied, tx, merkletree, db, walletDetails, scanLockPerChain, scanCall, query>>

----------------------------------------------------------------------------
(* ERC20RailgunContract.getHistoricalEvents *)

SCAN_CHUNKS == 500
MAX_SCAN_RETRIES == 5

\* The chain holds MaxChunks chunks of blocks and one block more; a
\* chunk query returns up to MaxEvents events.
MaxChunks == 1
MaxEvents == 1

\* No block has been persisted as lastSyncedBlock.
NoBlock == -1

IdleReplay ==
    [pc |-> "idle", error |-> "", startBlock |-> 0, latest |-> 0,
     currentStartBlock |-> 0, retryCount |-> 0, attempts |-> 0,
     queried |-> <<>>, synced |-> <<>>, lastSyncedBlock |-> NoBlock,
     invoked |-> <<>>, pending |-> {}, rejected |-> {}, cancelledAt |-> NoBlock]

\* The wallet and the library's functions take no part in a replay.
NoReplayOfWallet ==
    UNCHANGED <<merkletree, nullifiers, db, walletDetails, scanLockPerChain, scanCall,
                emitted, query, successive, tx, applied>>

\* The while loop of getHistoricalEvents at its test: the next chunk is
\* queried, or the replay is over.
LoopTest(call) ==
    IF call.currentStartBlock < call.latest
    THEN [call EXCEPT !.pc = "query", !.retryCount = 0, !.attempts = 0]
    ELSE [call EXCEPT !.pc = "done"]

\* getHistoricalEvents is invoked and getBlock('latest') resolves.
ReplayCall(startBlock, latest) ==
    /\ replay.pc = "idle"
    /\ replay' = LoopTest([IdleReplay EXCEPT !.startBlock = startBlock, !.latest = latest,
                                             !.currentStartBlock = startBlock])
    /\ NoReplayOfWallet

\* A plausible slip: a chunk whose retries are used up is passed over.
GiveUpSilently(call) == [call EXCEPT !.pc = "nullifiers"]

\* scanEvents with its retries used up: the provider's error is thrown, out
\* of getHistoricalEvents too.
GiveUp(call) == [call EXCEPT !.pc = "failed", !.error = "provider"]

\* queryFilter rejects: scanEvents calls itself again, or gives up.
ReplayQueryFails ==
    LET call == [replay EXCEPT !.attempts = @ + 1]
    IN  /\ replay.pc = "query"
        /\ replay' = IF call.retryCount < MAX_SCAN_RETRIES
                     THEN [call EXCEPT !.retryCount = @ + 1]
                     ELSE GiveUp(call)
        /\ NoReplayOfWallet

\* The listener invocation for event n of the chunk that starts at block.
Invocation(block, n, kind) == [block |-> block, n |-> n, kind |-> kind]

\* processEvents up to its await: forEach starts the commitment listener for
\* every commitment event, in the order of the events and without waiting for
\* any of them, and collects the nullifiers; then the nullifier listener is
\* invoked with them.
processEvents(call, events) ==
    LET block == call.currentStartBlock
        commitments == {n \in 1..Len(events) : events[n] = "commitment"}
        started == [n \in 1..Len(events) |-> Invocation(block, n, events[n])]
        listened == SelectSeq(started, LAMBDA i : i.kind = "commitment")
    IN  [call EXCEPT
            !.pc = "nullifiers",
            !.invoked = @ \o listened \o <<Invocation(block, Len(events) + 1, "nullifiers")>>,
            !.pending = @ \cup {Invocation(block, n, "commitment") : n \in commitments}]

\* queryFilter resolves with the events of blocks
\* currentStartBlock..(currentStartBlock + SCAN_CHUNKS).
ReplayQueryReturns(events) ==
    LET call == [replay EXCEPT
                    !.attempts = @ + 1,
                    !.queried = Append(@, [from |-> replay.currentStartBlock,
                                           to |-> replay.currentStartBlock + SCAN_CHUNKS])]
    IN  /\ replay.pc = "query"
        /\ replay' = processEvents(call, events)
        /\ NoReplayOfWallet

\* The nullifier listener resolves: setLastSyncedBlock is called.
ReplayNullifiersDone ==
    /\ replay.pc = "nullifiers"
    /\ replay' = [replay EXCEPT !.pc = "persist",
                                !.synced = Append(@, replay.currentStartBlock)]
    /\ NoReplayOfWallet

\* The nullifier listener rejects, and getHistoricalEvents with it.
ReplayNullifiersFail ==
    /\ replay.pc = "nullifiers"
    /\ replay' = [replay EXCEPT !.pc = "failed", !.error = "listener"]
    /\ NoReplayOfWallet

\* setLastSyncedBlock resolves: the loop goes on to the next chunk.
ReplayPersisted ==
    /\ replay.pc = "persist"
    /\ replay' = LoopTest([replay EXCEPT
                              !.lastSyncedBlock = replay.currentStartBlock,
                              !.currentStartBlock = @ + SCAN_CHUNKS])
    /\ NoReplayOfWallet

\* A commitment listener that forEach started resolves or rejects, whenever.
ListenerDone(invocation, ok) ==
    /\ invocation \in replay.pending
    /\ replay' = [replay EXCEPT
           !.pending = @ \ {invocation},
           !.rejected = IF ok THEN @ ELSE @ \cup {invocation}]
    /\ NoReplayOfWallet

\* The caller raises its wish to cancel, while some chunk is being worked
\* on; getHistoricalEvents has no parameter through which it could learn of it.
ReplayCancel ==
    /\ replay.pc \notin {"idle", "done", "failed"}
    /\ replay.cancelledAt = NoBlock
    /\ replay' = [replay EXCEPT !.cancelledAt = replay.currentStartBlock]
    /\ NoReplayOfWallet

----------------------------------------------------------------------------
(* Specifications *)

\* No function is being applied.
NotApplied == [op |-> "none", args |-> <<>>, result |-> <<>>]

\* A wallet right after its construction, on empty mirrors.
InitWallet ==
    /\ merkletree = [c \in AllChains |-> << <<>> >>]
    /\ nullifiers = [c \in AllChains |-> {}]
    /\ db = NoRecords
    /\ walletDetails = DefaultWalletDetails
    /\ scanLockPerChain = [c \in AllChains |-> FALSE]
    /\ scanCall = [s \in Slots |-> IdleCall]
    /\ emitted = {}
    /\ query = IdleQuery
    /\ successive = NotSuccessive
    /\ tx = IdleTx
    /\ replay = IdleReplay

Init == InitWallet /\ applied = NotApplied

\* The scanner on one chain: commitments to any of the wallet's keys and
\* scans, interleaved at scan's awaits.
Next ==
    \/ \E leaf \in RecipientLeaves : CommitmentEvent(1, leaf)
    \/ ScanCall(1, 1)
    \/ ScanDetails(1)
    \/ ScanTree(1)
    \/ ScanPersist(1)

Spec == Init /\ [][Next]_vars

\* Receiving and spending on one chain: commitments, nullifiers, scans and
\* balance queries, interleaved at their awaits.  The caller of a query takes
\* its result before anything else runs.
NextSpend ==
    \/ /\ query.pc # "returned"
       /\ \/ \E leaf \in {OwnLeaf, ForeignLeaf} : CommitmentEvent(1, leaf)
          \/ \E t \in 0..MaxLeaves, p \in 0..(TreeCapacity - 1) : NullifierEvent(1, t, p)
          \/ ScanCall(1, 1)
          \/ ScanDetails(1)
          \/ ScanTree(1)
          \/ ScanPersist(1)
          \/ QueryCall(1)
          \/ \E key \in DOMAIN db : TXOsKey(key)
          \/ QueryReturn
    \/ QueryDone

SpecSpend == Init /\ [][NextSpend]_vars

\* Balances over notes of several tokens and amounts in several trees; one
\* operation at a time, and TXOs' callbacks in the order of the keys.
Quiescent == query.pc = "idle" /\ \A s \in Slots : ~Running(s)

NextBalances ==
    \/ /\ Quiescent
       /\ \/ \E leaf \in ValueLeaves : CommitmentEvent(1, leaf)
          \/ \E t \in 0..MaxLeaves, p \in 0..(TreeCapacity - 1) : NullifierEvent(1, t, p)
          \/ ScanCall(1, 1)
          \/ QueryCall(1)
    \/ ScanDetails(1)
    \/ ScanTree(1)
    \/ ScanPersist(1)
    \/ \E i \in 1..Len(query.keys) :
           /\ \A j \in 1..(i - 1) : query.keys[j] \notin query.pending
           /\ TXOsKey(query.keys[i])
    \/ QueryReturn
    \/ QueryDone

SpecBalances == Init /\ [][NextBalances]_vars

\* Concurrent invocations of scan on two chains.
NextLock ==
    \/ \E leaf \in {OwnLeaf, BadLeaf} : CommitmentEvent(1, leaf)
    \/ \E s \in Slots, c \in AllChains : ScanCall(s, c)
    \/ \E s \in Slots : ScanDetails(s)
    \/ \E s \in Slots : ScanTree(s)
    \/ \E s \in Slots : ScanPersist(s)

SpecLock == Init /\ [][NextLock]_vars

\* Scans of two chains that both receive commitments to the wallet's first
\* primary keys, one after another or interleaved at their awaits: at most
\* MaxLeaves commitments on the two chains together, and at most one scan
\* of a chain at a time, the chain's own slot.
WindowLeaves == {Leaf(getKeypair(i, FALSE), 1, 1, FALSE) : i \in 0..(gapLimit - 1)}

NextChains ==
    \/ /\ NumLeaves(1) + NumLeaves(2) < MaxLeaves
       /\ \E c \in AllChains, leaf \in WindowLeaves : CommitmentEvent(c, leaf)
    \/ \E c \in AllChains : ScanCall(c, c)
    \/ \E s \in Slots : ScanDetails(s)
    \/ \E s \in Slots : ScanTree(s)
    \/ \E s \in Slots : ScanPersist(s)

SpecChains == Init /\ [][NextChains]_vars

\* Building a transaction while the chain goes on: commitments arrive at any
\* time, scans and nullifiers between transactions.
TxLeaves == {Leaf(getKeypair(0, FALSE), 1, a, FALSE) : a \in 1..MaxAmount}

TxOutputs ==
    {<<>>} \cup {<<[pubkey |-> ForeignKey, token |-> 1, amount |-> a]>> : a \in 1..MaxAmount}

Output(token) == [pubkey |-> ForeignKey, token |-> token, amount |-> 1]

\* The transactions asked for: no output to too many, an output of another
\* token, a pinned tree, withdraws with and without an address, a deposit,
\* a wrong encryption key.
TxCalls ==
    {[token |-> 1, outputs |-> outputs, withdraw |-> 0, deposit |-> 0,
      withdrawAddress |-> FALSE, pinned |-> pinned,
      encryptionKey |-> WalletEncryptionKey] :
        outputs \in TxOutputs \cup {<<Output(1), Output(1)>>},
        pinned \in {NoTree, 0, 1}}
    \cup
    {[token |-> 1, outputs |-> outputs, withdraw |-> 0, deposit |-> 0,
      withdrawAddress |-> FALSE, pinned |-> NoTree,
      encryptionKey |-> WalletEncryptionKey] :
        outputs \in {<<Output(1), Output(1), Output(1)>>, <<Output(2)>>}}
    \cup
    {[token |-> 1, outputs |-> outputs, withdraw |-> withdraw, deposit |-> 0,
      withdrawAddress |-> address, pinned |-> NoTree,
      encryptionKey |-> WalletEncryptionKey] :
        outputs \in {<<>>, <<Output(1)>>}, withdraw \in {0, 1}, address \in BOOLEAN}
    \cup
    {[token |-> 1, outputs |-> <<Output(1)>>, withdraw |-> 0, deposit |-> 1,
      withdrawAddress |-> FALSE, pinned |-> NoTree,
      encryptionKey |-> WalletEncryptionKey]}
    \cup
    {[token |-> 1, outputs |-> outputs, withdraw |-> 0, deposit |-> 0,
      withdrawAddress |-> FALSE, pinned |-> pinned, encryptionKey |-> encryptionKey] :
        outputs \in {<<>>, <<Output(1)>>}, pinned \in {NoTree, 1},
        encryptionKey \in WrongEncryptionKeys}

\* The proofs groth16.prove yields while a transaction is proved.
TxNatives ==
    {[pi_a |-> point, pi_b |-> <<point, point>>, pi_c |-> point] :
        point \in {p \in Points : p[1] # p[2]}}

NextTx ==
    \/ /\ tx.pc \notin {"returned", "failed"}
       /\ \E leaf \in TxLeaves : CommitmentEvent(1, leaf)
    \/ /\ tx.pc = "idle"
       /\ Quiescent
       /\ \/ ScanCall(1, 1)
          \/ \E t \in 0..MaxLeaves, p \in 0..(TreeCapacity - 1) : NullifierEvent(1, t, p)
          \/ \E call \in TxCalls :
                 TxCall(call.encryptionKey, call.token, call.outputs, call.withdraw, call.deposit,
                        call.withdrawAddress, call.pinned)
    \/ ScanDetails(1)
    \/ ScanTree(1)
    \/ ScanPersist(1)
    \/ \E key \in DOMAIN db : TXOsKey(key)
    \/ QueryReturn
    \/ TxSelect
    \/ TxProof
    \/ TxRoot
    \/ \E native \in TxNatives, sound \in BOOLEAN : TxProve(native, sound)
    \/ TxDone

SpecTx == Init /\ [][NextTx]_vars

\* Building transactions one operation at a time: commitments, the spending
\* of the first note, scans and transactions follow one another, and TXOs'
\* callbacks run in the order of the keys.
BuildLeaves == {Leaf(getKeypair(0, FALSE), 1, a, FALSE) : a \in {1, MaxAmount}}

NextBuild ==
    \/ /\ Quiescent
       /\ tx.pc = "idle"
       /\ \/ \E leaf \in BuildLeaves : CommitmentEvent(1, leaf)
          \/ NullifierEvent(1, 0, 0)
          \/ ScanCall(1, 1)
          \/ \E call \in TxCalls :
                 TxCall(call.encryptionKey, call.token, call.outputs, call.withdraw, call.deposit,
                        call.withdrawAddress, call.pinned)
    \/ ScanDetails(1)
    \/ ScanTree(1)
    \/ ScanPersist(1)
    \/ \E i \in 1..Len(query.keys) :
           /\ \A j \in 1..(i - 1) : query.keys[j] \notin query.pending
           /\ TXOsKey(query.keys[i])
    \/ QueryReturn
    \/ TxSelect
    \/ TxProof
    \/ TxRoot
    \/ \E native \in TxNatives, sound \in BOOLEAN : TxProve(native, sound)
    \/ TxDone

SpecBuild == Init /\ [][NextBuild]_vars

\* The selection of the inputs as a function of the balances by tree: the
\* balances are given directly, with more notes in a tree than the mirror of
\* the other specifications holds.
MaxTree == 2

MaxNotes == NOTE_INPUTS_large + 1

\* The tree balance of k unspent notes of tree t at positions 0..(k - 1), the
\* last b of them of the largest amount and the others of amount 1.
TreeBalance(t, k, b) ==
    LET utxos == [n \in 1..k |->
                     [tree |-> t, position |-> n - 1, index |-> 0, change |-> FALSE,
                      spendtxid |-> "", token |-> 1,
                      amount |-> IF n > k - b THEN MaxAmount ELSE 1]]
    IN  [balance |-> SumSeq(Amounts(utxos)), utxos |-> utxos]

\* Sparse arrays of tree balances: tree 0 with up to MaxNotes notes, the
\* other trees with one or two, any of the trees missing.
SelectBalances ==
    LET full == {[t \in 0..MaxTree |-> IF t = 0 THEN rich ELSE TreeBalance(t, poor[t], 0)] :
                    rich \in {TreeBalance(0, k, b) : k \in 1..MaxNotes, b \in 0..NOTE_INPUTS_small},
                    poor \in [1..MaxTree -> 1..NOTE_INPUTS_small]}
    IN  {[t \in D |-> f[t]] : f \in full, D \in SUBSET (0..MaxTree)}

\* Transactions that withdraw the amount required, with or without a pinned
\* tree.
SelectCalls ==
    {[IdleTx EXCEPT !.pc = "balances", !.withdraw = withdraw,
                    !.withdrawAddress = address, !.pinned = pinned] :
        withdraw \in 0..(MaxNotes + 1), address \in BOOLEAN,
        pinned \in {NoTree} \cup (0..MaxTree)}

InitSelect ==
    /\ InitWallet
    /\ applied \in {[op |-> "select",
                      args |-> [call |-> call, treeSortedBalances |-> treeSortedBalances],
                      result |-> <<>>] :
                        call \in SelectCalls, treeSortedBalances \in SelectBalances}

ApplySelect ==
    /\ applied.op = "select"
    /\ applied.result = <<>>
    /\ applied' = [applied EXCEPT
           !.result = Select(applied.args.call, applied.args.treeSortedBalances)]
    /\ UNCHANGED <<merkletree, nullifiers, db, walletDetails, scanLockPerChain, scanCall,
                   emitted, query, successive, tx, replay>>

NextSelect == ApplySelect

SpecSelect == InitSelect /\ [][NextSelect]_vars

\* A historical replay: chunk queries that fail or return events, listeners
\* that resolve or reject in their own time, and a caller that may wish to
\* cancel.
ReplayBlocks == {chunk * SCAN_CHUNKS + block : chunk \in 0..MaxChunks, block \in {0, 1}}

EventLists == SeqsOver({"commitment", "nullifier"}, MaxEvents)

NextReplay ==
    \/ \E startBlock, latest \in ReplayBlocks : ReplayCall(startBlock, latest)
    \/ ReplayQueryFails
    \/ \E events \in EventLists : ReplayQueryReturns(events)
    \/ ReplayNullifiersDone
    \/ ReplayNullifiersFail
    \/ ReplayPersisted
    \/ \E invocation \in replay.pending, ok \in BOOLEAN : ListenerDone(invocation, ok)
    \/ ReplayCancel

SpecReplay == Init /\ [][NextReplay]_vars

\* scanLeaves as a function of the leaves of a tree, the kind of the keys and
\* the height it starts from, one pass of its loop at a time.
MaxFetched == 2

SweptLeaves ==
    {[length |-> Len(fetched),
      items |-> [p \in 0..(Len(fetched) - 1) |-> fetched[p + 1]]] :
        fetched \in SeqsOver({Leaf(k, 1, 1, FALSE) : k \in WalletKeys \cup {ForeignKey}},
                             MaxFetched)}

InitLeaves ==
    /\ InitWallet
    /\ applied \in {[op |-> "scanLeaves",
                      args |-> [leaves |-> leaves, change |-> change,
                                initialHeight |-> initialHeight],
                      loop |-> scanLeavesStart(initialHeight),
                      passes |-> 0,
                      result |-> <<>>] :
                        leaves \in SweptLeaves, change \in BOOLEAN,
                        initialHeight \in 0..MaxIndex}

\* The loop of scanLeaves makes one more pass.
ApplyScanLeavesPass ==
    /\ applied.op = "scanLeaves"
    /\ applied.result = <<>>
    /\ scanLeavesGoesOn(applied.loop)
    /\ applied' = [applied EXCEPT
           !.loop = scanLeavesPass(@, applied.args.leaves, applied.args.change, 0, 1),
           !.passes = @ + 1]
    /\ UNCHANGED <<merkletree, nullifiers, db, walletDetails, scanLockPerChain, scanCall,
                   emitted, query, successive, tx, replay>>

\* The loop of scanLeaves is left: the height is returned.
ApplyScanLeavesReturn ==
    /\ applied.op = "scanLeaves"
    /\ applied.result = <<>>
    /\ ~scanLeavesGoesOn(applied.loop)
    /\ applied' = [applied EXCEPT
           !.result = [height |-> applied.loop.height, scanned |-> applied.loop.scanned]]
    /\ UNCHANGED <<merkletree, nullifiers, db, walletDetails, scanLockPerChain, scanCall,
                   emitted, query, successive, tx, replay>>

NextLeaves == ApplyScanLeavesPass \/ ApplyScanLeavesReturn

SpecLeaves == InitLeaves /\ [][NextLeaves]_vars /\ WF_vars(NextLeaves)

\* One iteration of scan's loop over the trees as a function of the wallet
\* details and the leaves fetched: the sweep of the primary and of the change
\* indices.
InitSweep ==
    /\ InitWallet
    /\ applied \in {[op |-> "sweep",
                      args |-> [leaves |-> leaves,
                                walletDetails |->
                                    [treeScannedHeights |-> <<0>>,
                                     primaryHeight |-> primaryHeight,
                                     changeHeight |-> changeHeight]],
                      result |-> <<>>] :
                        leaves \in SweptLeaves,
                        primaryHeight \in 0..MaxIndex, changeHeight \in 0..MaxIndex}

ApplySweep ==
    LET details == applied.args.walletDetails
        leaves == applied.args.leaves
        primary == scanLeaves(leaves, FALSE, details.primaryHeight, 0, 1)
        change == scanLeaves(leaves, TRUE, ChangeInitialHeight(details), 0, 1)
    IN  /\ applied.op = "sweep"
        /\ applied.result = <<>>
        /\ applied' = [applied EXCEPT
               !.result = [primary |-> primary, change |-> change,
                           walletDetails |->
                               ScannedTree(details, 0, leaves, primary, change)]]
        /\ UNCHANGED <<merkletree, nullifiers, db, walletDetails, scanLockPerChain,
                       scanCall, emitted, query, successive, tx, replay>>

NextSweep == ApplySweep

SpecSweep == InitSweep /\ [][NextSweep]_vars

\* Prover.prove as a function of the circuit, the inputs and what groth16
\* makes of them: the inputs are those of transactions of dummy notes.
ProverInputs ==
    {Inputs(RunInputs([IdleTx EXCEPT
                          !.tree = tree,
                          !.solution = [n \in 1..NOTE_INPUTS_small |-> DummyInput(tree, 1, n)]],
                      1),
            ZeroValue) : tree \in 0..MaxTree}

InitProver ==
    /\ InitWallet
    /\ applied \in {[op |-> "prove",
                      args |-> [circuit |-> circuit, inputs |-> inputs,
                                native |-> native, sound |-> sound],
                      result |-> <<>>] :
                        circuit \in {"erc20small", "erc20large"}, inputs \in ProverInputs,
                        native \in Proofs, sound \in BOOLEAN}

ApplyProve ==
    /\ applied.op = "prove"
    /\ applied.result = <<>>
    /\ applied' = [applied EXCEPT
           !.result = prove(applied.args.circuit, applied.args.inputs,
                            applied.args.native, applied.args.sound)]
    /\ UNCHANGED <<merkletree, nullifiers, db, walletDetails, scanLockPerChain, scanCall,
                   emitted, query, successive, tx, replay>>

NextProver == ApplyProve

SpecProver == InitProver /\ [][NextProver]_vars

----------------------------------------------------------------------------
(* The scan lock *)

\* Slot s invokes scan in this step.
Invokes(s) == ~Running(s) /\ scanCall'[s] # scanCall[s]

NoConcurrentScanBodies ==
    \A s1, s2 \in Slots :
        Running(s1) /\ Running(s2) /\ scanCall[s1].chainID = scanCall[s2].chainID
            => s1 = s2

LockedCallDoesNothing ==
    \A s \in Slots :
        Invokes(s) /\ scanLockPerChain[scanCall'[s].chainID] =>
            /\ ~Running(s)'
            /\ scanCall'[s].ret = "locked"
            /\ emitted' = {}
            /\ UNCHANGED <<db, walletDetails, scanLockPerChain>>

\* C1: a scan invoked while the chain's lock is held returns without error,
\* writes nothing to the store, emits nothing and leaves the lock as it is,
\* and no two scan bodies of one chain ever run at the same time.
C1_ScanSerializedPerChain ==
    [](NoConcurrentScanBodies) /\ [][LockedCallDoesNothing]_vars

\* A call has returned as locked while another call's body runs on the chain.
C1_Witness ==
    \E s1, s2 \in Slots :
        /\ s1 # s2
        /\ Running(s1)
        /\ scanCall[s1].pc = "persist"
        /\ scanCall[s2].ret = "locked"
        /\ scanCall[s2].chainID = scanCall[s1].chainID
        /\ db # NoRecords

----------------------------------------------------------------------------
(* Scanning *)

\* Slot s's scan completes in this step.
Completes(s) == scanCall[s].pc = "persist" /\ ~Running(s)'

\* C2: two scans run to completion in succession, nothing else in between,
\* leave the wallet details and every TXO record as the first one left them.
C2_ScanIdempotent ==
    successive.stage = "twice" =>
        /\ db = successive.db
        /\ walletDetails = successive.walletDetails

\* The positions of the mirror, as slot s's scan found it, that no earlier
\* scan has fetched: those of a tree the persisted details do not list, and
\* those above a listed tree's scanned height.
NewlyAppended(s) ==
    LET call == scanCall[s]
        heights == call.loaded.treeScannedHeights
    IN  {tp \in (0..MaxLeaves) \X (0..(TreeCapacity - 1)) :
            /\ tp[1] + 1 <= Len(call.lengths)
            /\ tp[2] < call.lengths[tp[1] + 1]
            /\ tp[1] + 1 <= Len(heights) => tp[2] > heights[tp[1] + 1]}

\* The positions slot s's scan fetches.
Fetched(s) ==
    LET call == scanCall[s]
        heights == call.loaded.treeScannedHeights
    IN  {tp \in (0..MaxLeaves) \X (0..(TreeCapacity - 1)) :
            /\ tp[1] + 1 <= Len(call.lengths)
            /\ tp[2] < call.lengths[tp[1] + 1]
            /\ tp[1] + 1 <= Len(heights) => tp[2] >= heights[tp[1] + 1]}

LeafAt(chainID, tp) == getCommitment(chainID, tp[1], tp[2])

\* C3: with persisted primaryHeight h, a new commitment to the primary key at
\* index h + gapLimit - 1 has a TXO record when the scan completes.
C3_NoteInsideGapFound ==
    [][\A s \in Slots : Completes(s) =>
          \A tp \in NewlyAppended(s) :
              LeafAt(scanCall[s].chainID, tp).pubkey =
                  getKeypair(scanCall[s].loaded.primaryHeight + gapLimit - 1, FALSE)
              => <<scanCall[s].chainID, tp[1], tp[2]>> \in DOMAIN db']_vars

\* C4: with persisted primaryHeight h, a new commitment to the primary key at
\* index h + gapLimit, the only note of the wallet among the fetched leaves,
\* has no TXO record when the scan completes.
C4_NoteAtGapNotFound ==
    [][\A s \in Slots : Completes(s) =>
          \A tp \in NewlyAppended(s) :
              /\ LeafAt(scanCall[s].chainID, tp).pubkey =
                     getKeypair(scanCall[s].loaded.primaryHeight + gapLimit, FALSE)
              /\ \A o \in Fetched(s) \ {tp} :
                     LeafAt(scanCall[s].chainID, o).pubkey = ForeignKey
              => <<scanCall[s].chainID, tp[1], tp[2]>> \notin DOMAIN db']_vars

\* The highest derivation index a TXO record holds for the primary or the
\* change keys, 0 when there is none.
HighestIndex(change) ==
    LET found == {db[k].index : k \in {k \in DOMAIN db : db[k].change = change}}
    IN  IF found = {} THEN 0 ELSE Max(found)

ScansCompleted ==
    /\ \A s \in Slots : ~Running(s)
    /\ \E s \in Slots : scanCall[s].ret = "scanned"

\* C5: after completed scans the heights are the highest indices a TXO record
\* was ever persisted for, and they never decrease.
C5_HeightsAreHighestFound ==
    /\ [](ScansCompleted =>
            /\ walletDetails.primaryHeight = HighestIndex(FALSE)
            /\ walletDetails.changeHeight = HighestIndex(TRUE))
    /\ [][/\ walletDetails'.primaryHeight >= walletDetails.primaryHeight
          /\ walletDetails'.changeHeight >= walletDetails.changeHeight]_vars

\* Slot s's scan runs an iteration over a tree in this step.
ScansTree(s) == scanCall[s].pc = "tree" /\ scanCall'[s] # scanCall[s]

\* C9: a leaf that raises is skipped: the scan goes on, and the leaves
\* fetched with it that are addressed to the wallet's first keys are persisted.
C9_BadLeafSkipped ==
    [][\A s \in Slots :
          LET call == scanCall[s]
              leaves == FetchLeaves(call.chainID, call.tree,
                                    call.walletDetails.treeScannedHeights[call.tree + 1])
          IN  ScansTree(s) /\ scanIndexThrows(leaves) =>
                  /\ scanCall'[s].ret # "rejected"
                  /\ Running(s)'
                  /\ \A p \in DOMAIN leaves.items :
                         leaves.items[p].pubkey \in {getKeypair(0, FALSE), getKeypair(0, TRUE)}
                             => <<call.chainID, call.tree, p>> \in DOMAIN db']_vars

----------------------------------------------------------------------------
(* Spending *)

\* C6: a TXO record is never deleted, and a spendtxid once set stays as it is.
C6_SpendtxidMonotonic ==
    [][\A k \in DOMAIN db :
          /\ k \in DOMAIN db'
          /\ db[k].spendtxid # "" => db'[k].spendtxid = db[k].spendtxid]_vars

RECURSIVE SumAmounts(_)
SumAmounts(txos) ==
    IF txos = {} THEN 0
    ELSE LET x == CHOOSE x \in txos : TRUE
         IN  x.amount + SumAmounts(txos \ {x})

\* The keys the running query listed whose nullifier was in the mirror's
\* index when the query started.
SpentAtStart == {k \in Range(query.keys) : db[k].nullifier \in query.nullified}

\* Every utxo of the query's results.
ListedUtxos ==
    UNION {Range(query.balances[tk].utxos) : tk \in DOMAIN query.balances}
      \cup UNION {UNION {Range(query.balancesByTree[tk][t].utxos) :
                            t \in DOMAIN query.balancesByTree[tk]} :
                     tk \in DOMAIN query.balancesByTree}

SpentAtStartNotCounted ==
    query.pc = "returned" =>
        /\ \A k \in SpentAtStart :
               /\ \A u \in ListedUtxos : <<u.tree, u.position>> # <<k[2], k[3]>>
               /\ query.TXOs[k].spendtxid # ""
        /\ \A tk \in DOMAIN query.balances :
               query.balances[tk].balance <=
                   SumAmounts({query.TXOs[k] : k \in
                       {k \in Range(query.keys) \ SpentAtStart : db[k].token = tk}})

SpentAtStartPersisted ==
    \A k \in DOMAIN db :
        /\ query.pc = "keys"
        /\ k \in query.pending
        /\ k \notin query'.pending
        /\ db[k].nullifier \in query.nullified
        => db'[k].spendtxid # ""

\* C7: a TXO whose nullifier was in the index when balances or balancesByTree
\* started is in no utxos list and in no balance of the result, and the store
\* holds its record with spendtxid set once the query is through with it.
C7_SpentNotesExcluded ==
    [](SpentAtStartNotCounted) /\ [][SpentAtStartPersisted]_vars

\* A query has returned that met a spent note and an unspent one.
C7_Witness ==
    /\ query.pc = "returned"
    /\ SpentAtStart # {}
    /\ ListedUtxos # {}

\* C8: in the result of balances every token's balance is the sum of its
\* utxos' amounts and its utxos are that token's unspent TXOs, each once; in
\* the result of balancesByTree a token's per-tree balances add up to its
\* balance and every utxo is listed under its own tree.
C8_BalanceAccounting ==
    query.pc = "returned" =>
        LET TXOs == Range(query.TXOs)
        IN  /\ DOMAIN query.balances = {x.token : x \in TXOs}
            /\ DOMAIN query.balancesByTree = DOMAIN query.balances
            /\ \A tk \in DOMAIN query.balances :
                 LET entry == query.balances[tk]
                     byTree == query.balancesByTree[tk]
                 IN  /\ entry.balance = SumSeq([i \in 1..Len(entry.utxos) |-> entry.utxos[i].amount])
                     /\ Range(entry.utxos) = {x \in TXOs : x.token = tk /\ x.spendtxid = ""}
                     /\ Len(entry.utxos) = Cardinality(Range(entry.utxos))
                     /\ entry.balance =
                            SumSeq([i \in 1..Len(StreamKeys({<<1, t, 0>> : t \in DOMAIN byTree})) |->
                                byTree[StreamKeys({<<1, t, 0>> : t \in DOMAIN byTree})[i][2]].balance])
                     /\ \A t \in DOMAIN byTree :
                            /\ Range(byTree[t].utxos) = {x \in Range(entry.utxos) : x.tree = t}
                            /\ Len(byTree[t].utxos) = Cardinality(Range(byTree[t].utxos))
                            /\ byTree[t].utxos # <<>>
                     /\ \A x \in Range(entry.utxos) : x.tree \in DOMAIN byTree

\* A query has returned a token with unspent notes in two trees and a spent one.
C8_Witness ==
    /\ query.pc = "returned"
    /\ \E tk \in DOMAIN query.balancesByTree :
           /\ Cardinality(DOMAIN query.balancesByTree[tk]) >= 2
           /\ \E x \in Range(query.TXOs) : x.token = tk /\ x.spendtxid # ""

----------------------------------------------------------------------------
(* Merkle inclusion of the inputs *)

\* C10: for every real input of the inputs generateInputs returns, the path
\* elements, the input's position and its commitment hash up to the returned
\* merkleRoot, also when leaves were appended to the tree while
\* generateInputs waited.
C10_InputsIncludedInRoot ==
    tx.pc = "returned" =>
        \A i \in 1..Len(tx.solution) :
            LET utxo == tx.solution[i]
            IN  utxo.dummyKey = 0 =>
                    RootOfPath(NoteHash(getKeypair(utxo.index, utxo.change),
                                        utxo.token, utxo.amount),
                               tx.inputs.pathIndices[i],
                               tx.inputs.pathElements[i]) = tx.inputs.merkleRoot

----------------------------------------------------------------------------
(* The inputs of a transaction *)

\* The lists of the circuit inputs that hold one element per input note.
InputLists(inputs) ==
    <<inputs.nullifiers, inputs.randomIn, inputs.valuesIn, inputs.spendingKeys,
      inputs.pathElements, inputs.pathIndices>>

\* C11: when generateInputs has returned, the nullifier list holds exactly
\* NOTE_INPUTS.small (2) or NOTE_INPUTS.large (10) entries, randomIn,
\* valuesIn, spendingKeys, pathElements and pathIndices hold as many, and
\* every element of pathElements holds one sibling per level of the tree.
C11_InputListsSmallOrLarge ==
    tx.pc = "returned" =>
        /\ Len(tx.inputs.nullifiers) \in {NOTE_INPUTS_small, NOTE_INPUTS_large}
        /\ \A i \in 1..Len(InputLists(tx.inputs)) :
               Len(InputLists(tx.inputs)[i]) = Len(tx.inputs.nullifiers)
        /\ \A i \in 1..Len(tx.inputs.pathElements) :
               Len(tx.inputs.pathElements[i]) = TreeDepth

\* A selection has been made: Select went on to the loop over the inputs.
Selected ==
    /\ applied.op = "select"
    /\ applied.result # <<>>
    /\ applied.result.pc # "failed"

RealInputs(solution) == {i \in 1..Len(solution) : solution[i].dummyKey = 0}

\* C12: the real notes among the selected inputs are pairwise distinct in
\* (tree, position) - the greedy prefix and the padding taken from the end of
\* the sorted notes never overlap - and so are their nullifiers.
C12_SelectedNotesDistinct ==
    Selected =>
        LET solution == applied.result.solution
        IN  \A i, j \in RealInputs(solution) :
                i # j =>
                    /\ <<solution[i].tree, solution[i].position>> #
                       <<solution[j].tree, solution[j].position>>
                    /\ getNullifier(SpendingKey(solution[i]), applied.result.tree,
                                    solution[i].position) #
                       getNullifier(SpendingKey(solution[j]), applied.result.tree,
                                    solution[j].position)

\* Ten real notes were selected out of more: a greedy prefix of three or more
\* and padding from the end.
C12_Witness ==
    /\ Selected
    /\ Len(applied.result.solution) = NOTE_INPUTS_large
    /\ RealInputs(applied.result.solution) = 1..NOTE_INPUTS_large
    /\ Len(applied.args.treeSortedBalances[applied.result.tree].utxos) > NOTE_INPUTS_large

----------------------------------------------------------------------------
(* The errors of a transaction *)

\* The unspent balance of a token as the balance query of the transaction
\* found it, over all trees.
WalletBalance(token) ==
    IF token \in DOMAIN query.balances THEN query.balances[token].balance ELSE 0

\* The prover has not been invoked for the transaction.
ProverNotInvoked == tx.circuit = "" /\ tx.proof = <<>>

\* C13: when the checks of the outputs have passed and the wallet's unspent
\* balance of the token over all trees is less than
\* sum(outputs.amount) + withdraw - deposit, generateInputs fails with
\* 'Wallet balance too low', and the prover is not invoked.
C13_InsufficientBalanceFails ==
    /\ [][(/\ tx.pc = "balances"
           /\ tx' # tx
           /\ WalletBalance(tx.token) <
                  SumSeq(Amounts(tx.outputs)) + tx.withdraw - tx.deposit)
          => (tx'.pc = "failed" /\ tx'.error = "Wallet balance too low")]_vars
    /\ [](tx.error = "Wallet balance too low" => ProverNotInvoked)

\* A transaction failed for its balance in a wallet that holds an unspent note.
C13_Witness ==
    /\ tx.pc = "failed"
    /\ tx.error = "Wallet balance too low"
    /\ \E key \in DOMAIN db : db[key].spendtxid = "" /\ db[key].token = tx.token

\* The sum of the n largest notes of a tree balance.
SumOfLargest(treeBalance, n) ==
    SumSeq(Amounts(SubSeq(SortBySize(treeBalance.utxos), 1, n)))

\* A tree admits a selection: its balance covers the amount required, and at
\* most NOTE_INPUTS.large of its largest notes reach it.
Admits(treeBalance, required) ==
    /\ treeBalance.balance >= required
    /\ \E n \in 0..NOTE_INPUTS_large :
           n <= Len(treeBalance.utxos) /\ SumOfLargest(treeBalance, n) >= required

\* The balance of all the trees of a sparse array of tree balances.
TotalBalance(treeSortedBalances) ==
    LET trees == StreamKeys({<<1, t, 0>> : t \in DOMAIN treeSortedBalances})
    IN  SumSeq([i \in 1..Len(trees) |-> treeSortedBalances[trees[i][2]].balance])

\* C14: with no tree pinned and a balance that covers the amount required, if
\* no tree admits a selection, generateInputs fails with 'Balances need to be
\* consolidated before being able to spend this amount' (so the prover is not
\* reached); and a tree that is selected admits a selection, with an input
\* list of exactly 2 or 10 notes.
C14_NoSelectionNeedsConsolidation ==
    (/\ applied.op = "select"
     /\ applied.result # <<>>
     /\ applied.args.call.pinned = NoTree) =>
        LET call == applied.args.call
            treeSortedBalances == applied.args.treeSortedBalances
            required == call.withdraw
        IN  /\ (/\ TotalBalance(treeSortedBalances) >= required
                /\ \A t \in DOMAIN treeSortedBalances :
                       ~Admits(treeSortedBalances[t], required))
               => /\ applied.result.pc = "failed"
                  /\ applied.result.error =
                         "Balances need to be consolidated before being able to spend this amount"
            /\ Selected
               => /\ Admits(treeSortedBalances[applied.result.tree], required)
                  /\ Len(applied.result.solution) \in {NOTE_INPUTS_small, NOTE_INPUTS_large}

\* The withdraw of a transaction is misconfigured: an amount without an
\* address, or an address without an amount.
Misconfigured(call) ==
    \/ call.withdraw > 0 /\ ~call.withdrawAddress
    \/ call.withdraw = 0 /\ call.withdrawAddress

WithdrawErrors == {"Withdraw address not set", "Withdraw shouldn't be set"}

\* generateInputs has passed its checks of the withdraw address.
PastWithdrawChecks == tx.pc \in {"proofs", "root", "returned", "proved"}

\* C15, as stated: a transaction whose withdraw is misconfigured fails with
\* the error of the withdraw configuration, whatever else is wrong with it, and
\* never reaches the prover.
C15_MisconfiguredFailsWithdrawError ==
    Misconfigured(tx) =>
        /\ ~PastWithdrawChecks
        /\ ProverNotInvoked
        /\ tx.pc = "failed" => tx.error \in WithdrawErrors

\* The balance query of the transaction found a balance that covers the
\* amount required and a tree to spend from: the pinned one, or the first that
\* admits a selection, no tree below it missing from the balances.
TreeChosen ==
    LET treeSortedBalances == TreeSortedBalances(query.balancesByTree, tx.token)
        required == SumSeq(Amounts(tx.outputs)) + tx.withdraw - tx.deposit
    IN  /\ TotalBalance(treeSortedBalances) >= required
        /\ \/ tx.pinned > 0
           \/ \E t \in DOMAIN treeSortedBalances :
                  /\ Admits(treeSortedBalances[t], required)
                  /\ \A u \in 0..(t - 1) : u \in DOMAIN treeSortedBalances

\* C15, amended: a transaction whose withdraw is misconfigured never gets
\* past generateInputs and never reaches the prover; it fails with 'Withdraw
\* address not set' (amount without address) or "Withdraw shouldn't be set"
\* (address without amount) when the earlier checks - outputs, balance, choice
\* of the tree - have passed.
C15_MisconfiguredFailsBeforeProver ==
    /\ [](Misconfigured(tx) => ~PastWithdrawChecks /\ ProverNotInvoked)
    /\ [][(/\ tx.pc = "balances"
           /\ tx' # tx
           /\ Misconfigured(tx)
           /\ TreeChosen)
          => /\ tx'.pc = "failed"
             /\ tx'.error = IF tx.withdraw > 0 THEN "Withdraw address not set"
                            ELSE "Withdraw shouldn't be set"]_vars

\* A transaction that withdraws without an address failed for it, in a wallet
\* whose balance covers the withdraw.
C15_Witness ==
    /\ tx.pc = "failed"
    /\ tx.withdraw > 0
    /\ ~tx.withdrawAddress
    /\ tx.error = "Withdraw address not set"

----------------------------------------------------------------------------
(* The outputs of a transaction *)

\* generateInputs has returned its inputs and commitments.
Built == tx.pc \in {"returned", "proved"}

\* C16: a built transaction has exactly 3 output commitments: the caller's
\* outputs (at most 2) in their order, then one change note to the wallet's
\* change key of index 0, then dummy notes of amount 0 to keys that are not the
\* wallet's; commitmentsOut, recipientPK, randomOut, valuesOut and the returned
\* commitments all hold 3 elements.
C16_ThreeOutputCommitments ==
    Built =>
        LET outputs == Len(tx.outputs)
        IN  /\ outputs <= 2
            /\ Len(tx.commitments) = 3
            /\ Len(tx.inputs.commitmentsOut) = 3
            /\ Len(tx.inputs.recipientPK) = 3
            /\ Len(tx.inputs.randomOut) = 3
            /\ Len(tx.inputs.valuesOut) = 3
            /\ SubSeq(tx.commitments, 1, outputs) = tx.outputs
            /\ tx.commitments[outputs + 1].pubkey = getKeypair(0, TRUE)
            /\ \A n \in (outputs + 2)..3 :
                   /\ tx.commitments[n].amount = 0
                   /\ tx.commitments[n].pubkey \notin WalletKeys
            /\ \A n \in 1..3 :
                   /\ tx.inputs.recipientPK[n] = tx.commitments[n].pubkey
                   /\ tx.inputs.valuesOut[n] = tx.commitments[n].amount
                   /\ tx.inputs.commitmentsOut[n] =
                          NoteHash(tx.commitments[n].pubkey, tx.commitments[n].token,
                                   tx.commitments[n].amount)

\* A transaction with one output was built: the output, the change note and
\* one dummy note.
C16_Witness == Built /\ Len(tx.outputs) = 1 /\ tx.solution # <<>>

----------------------------------------------------------------------------
(* The prover *)

\* Prover.prove has returned or thrown.
ProveDone == applied.op = "prove" /\ applied.result # <<>>

\* C17: a proof that Prover.prove returns passes Prover.verify, for the same
\* circuit, against the public inputs returned with it; and when the
\* self-verification of the formatted proof gives false, prove throws 'Proof
\* generation failed' and returns neither proof nor inputs.
C17_ReturnedProofVerified ==
    ProveDone =>
        LET args == applied.args
            result == applied.result
        IN  /\ result.ok
               => /\ result.inputs = privateToPublicInputs(args.inputs)
                  /\ verify(result.proved, args.circuit, result.inputs, result.proof)
            /\ ~verify(result.proved, args.circuit, privateToPublicInputs(args.inputs),
                       formatProof(args.native))
               => /\ ~result.ok
                  /\ result.error = "Proof generation failed"
                  /\ result.proof = <<>>
                  /\ result.inputs = <<>>

\* groth16 made a proof that does not verify, and prove threw.
C17_Witness ==
    /\ ProveDone
    /\ ~applied.args.sound
    /\ applied.result.error = "Proof generation failed"

\* C18: prove stores pi_a and pi_c of groth16's proof as they are and each
\* pair of pi_b swapped, as numbers; verify swaps each pair back, so the
\* pi_a, pi_b, pi_c it hands to groth16.verify are the decimal strings that
\* groth16.prove gave.
C18_PairsSwappedAndRestored ==
    ProveDone =>
        LET native == applied.args.native
            stored == applied.result.formatted
        IN  /\ stored.a = <<BN(native.pi_a[1]), BN(native.pi_a[2])>>
            /\ stored.c = <<BN(native.pi_c[1]), BN(native.pi_c[2])>>
            /\ \A i \in 1..2 :
                   stored.b[i] = <<BN(native.pi_b[i][2]), BN(native.pi_b[i][1])>>
            /\ applied.result.verifier = native

\* A proof whose pairs are of two different coordinates, one of two digits,
\* was stored and handed to the verifier.
C18_Witness ==
    /\ ProveDone
    /\ applied.result.ok
    /\ \A i \in 1..2 :
           /\ applied.args.native.pi_b[i][1] # applied.args.native.pi_b[i][2]
           /\ Len(applied.args.native.pi_b[i][2]) = 2

----------------------------------------------------------------------------
(* bech32 addresses *)

VERSION == 1

\* chainID undefined.
Undefined == -1

\* The sequences of at most n elements of S.
SeqsUpTo(S, n) == UNION {[1..k -> S] : k \in 0..n}

\* bytes.arrayify of a hexadecimal string of whole bytes.
arrayify(string) ==
    [i \in 1..(Len(string) \div 2) |-> 16 * string[2 * i - 1] + string[2 * i]]

\* bytes.numberify of a hexadecimal string.
RECURSIVE numberify(_)
numberify(string) ==
    IF string = <<>> THEN 0
    ELSE 16 * numberify(SubSeq(string, 1, Len(string) - 1)) + string[Len(string)]

\* String.slice(start, end): the characters from index start (counted from 0)
\* up to, not including, index end or the end of the string.
slice(string, start, end) ==
    [i \in 1..Max({0, (IF end < Len(string) THEN end ELSE Len(string)) - start}) |->
        string[start + i]]

\* The sparse array of the prefixes, by chain.
prefixes ==
    (1 :> "rgeth") @@ (3 :> "rgtestropsten") @@ (5 :> "rgtestgoerli") @@
    (56 :> "rgbsc") @@ (137 :> "rgpoly")

\* bech32encode and bech32decode of bech32-buffer: an address is its prefix
\* and its data, and nothing else.
bech32encode(prefix, data) == <<prefix, data>>

bech32decode(address) == [prefix |-> address[1], data |-> address[2]]

\* A plausible slip: every address gets the generic prefix.
AnyPrefix(chainID) == "rgany"

\* The prefix encode takes for a chain.
Prefix(chainID) ==
    IF chainID # Undefined /\ chainID # 0 /\ chainID \in DOMAIN prefixes
    THEN prefixes[chainID]
    ELSE "rgany"

\* encode(pubkey, chainID), the public key given as a hexadecimal string.
encode(pubkey, chainID) ==
    bech32encode(Prefix(chainID), arrayify(hexlify(<<VERSION>>) \o pubkey))

\* A plausible slip: the prefix is looked at before the version.
DecodeErrorPrefixFirst(version, prefix) ==
    IF prefix # "rgany" /\ \A chainID \in DOMAIN prefixes : prefixes[chainID] # prefix
    THEN "Address prefix unrecognized"
    ELSE IF version # VERSION THEN "Incorrect address version"
    ELSE ""

\* The error decode throws for a version and a prefix, "" when it throws none.
DecodeError(version, prefix) ==
    IF version # VERSION THEN "Incorrect address version"
    ELSE IF prefix # "rgany" /\ \A chainID \in DOMAIN prefixes : prefixes[chainID] # prefix
    THEN "Address prefix unrecognized"
    ELSE ""

\* decode(address): the chain and the public key, or the error thrown.
decode(address) ==
    LET decoded == bech32decode(address)
        data == hexlify(decoded.data)
        version == numberify(slice(data, 0, 2))
        pubkey == slice(data, 2, Len(data))
        error == DecodeError(version, decoded.prefix)
    IN  IF error # "" THEN [error |-> error, chainID |-> Undefined, pubkey |-> <<>>]
        ELSE IF \E chainID \in DOMAIN prefixes : prefixes[chainID] = decoded.prefix
        THEN [error |-> "",
              chainID |-> CHOOSE chainID \in DOMAIN prefixes :
                              prefixes[chainID] = decoded.prefix,
              pubkey |-> pubkey]
        ELSE [error |-> "", chainID |-> Undefined, pubkey |-> pubkey]

\* The public keys and chains encoded: every chain of the table, no chain,
\* chain 0 and chains the table does not know.
Pubkeys == {hexlify(array) : array \in SeqsUpTo(ByteValues, MaxBytes)}

ChainIDs == DOMAIN prefixes \cup {Undefined, 0, 2, 4}

\* The addresses decoded: any prefix, with data of any bytes.
Addresses ==
    {bech32encode(prefix, data) :
        prefix \in {prefixes[chainID] : chainID \in DOMAIN prefixes} \cup {"rgany", "rgunknown"},
        data \in SeqsUpTo(ByteValues, MaxBytes + 1)}

InitBech32 ==
    /\ InitWallet
    /\ applied \in
           {[op |-> "encode", args |-> [pubkey |-> pubkey, chainID |-> chainID],
             result |-> <<>>] : pubkey \in Pubkeys, chainID \in ChainIDs}
           \cup
           {[op |-> "decode", args |-> [address |-> address], result |-> <<>>] :
               address \in Addresses}

\* encode is applied, and decode to the address it gives.
ApplyEncode ==
    /\ applied.op = "encode"
    /\ applied.result = <<>>
    /\ applied' = [applied EXCEPT !.result =
           LET address == encode(applied.args.pubkey, applied.args.chainID)
           IN  [address |-> address, decoded |-> decode(address)]]
    /\ UNCHANGED <<merkletree, nullifiers, db, walletDetails, scanLockPerChain, scanCall,
                   emitted, query, successive, tx, replay>>

ApplyDecode ==
    /\ applied.op = "decode"
    /\ applied.result = <<>>
    /\ applied' = [applied EXCEPT !.result = decode(applied.args.address)]
    /\ UNCHANGED <<merkletree, nullifiers, db, walletDetails, scanLockPerChain, scanCall,
                   emitted, query, successive, tx, replay>>

NextBech32 == ApplyEncode \/ ApplyDecode

SpecBech32 == InitBech32 /\ [][NextBech32]_vars

Encoded == applied.op = "encode" /\ applied.result # <<>>

Decoded == applied.op = "decode" /\ applied.result # <<>>

VersionByte(address) == IF address[2] = <<>> THEN Undefined ELSE address[2][1]

KnownPrefixes == {"rgeth", "rgtestropsten", "rgtestgoerli", "rgbsc", "rgpoly", "rgany"}

\* C20: decode fails with 'Incorrect address version' when the version byte
\* of the address is not VERSION, whatever the prefix; and with 'Address
\* prefix unrecognized' when the version byte is VERSION and the prefix is
\* neither of the table nor 'rgany'.
C20_DecodeErrors ==
    Decoded =>
        LET address == applied.args.address
        IN  /\ VersionByte(address) # VERSION
               => applied.result.error = "Incorrect address version"
            /\ (VersionByte(address) = VERSION /\ address[1] \notin KnownPrefixes)
               => applied.result.error = "Address prefix unrecognized"
            /\ (VersionByte(address) = VERSION /\ address[1] \in KnownPrefixes)
               => applied.result.error = ""

\* An address of an unknown prefix and of another version failed for its
\* version.
C20_Witness ==
    /\ Decoded
    /\ applied.args.address[1] = "rgunknown"
    /\ Len(applied.args.address[2]) > 1
    /\ VersionByte(applied.args.address) # VERSION
    /\ applied.result.error = "Incorrect address version"

----------------------------------------------------------------------------
(* The historical replay *)

\* C21: during a historical replay the query of a chunk is attempted at most
\* 5 times in total (MAX_SCAN_RETRIES) before the replay gives up on the chunk.
C21_AtMostFiveAttempts == replay.attempts <= MAX_SCAN_RETRIES

\* The replay has given up on a chunk: scanEvents threw the provider's error.
GaveUp == replay.pc = "failed" /\ replay.error = "provider"

\* The blocks that setLastSyncedBlock was called with.
Synced == Range(replay.synced)

\* C22: when every attempt for a chunk has failed, getHistoricalEvents rejects
\* with the provider's error; setLastSyncedBlock has not been called for that
\* chunk nor for a later one, no listener was invoked for an event of that
\* chunk or of a later one, and the value persisted for the earlier chunks
\* stands.
C22_ExhaustedChunkSurfaces ==
    /\ [][(/\ replay.pc = "query"
           /\ replay.retryCount = MAX_SCAN_RETRIES
           /\ replay'.attempts = replay.attempts + 1
           /\ replay'.queried = replay.queried)
          => /\ GaveUp'
             /\ replay'.synced = replay.synced
             /\ replay'.invoked = replay.invoked
             /\ replay'.lastSyncedBlock = replay.lastSyncedBlock]_vars
    /\ [](GaveUp
          => /\ \A block \in Synced : block < replay.currentStartBlock
             /\ \A i \in Range(replay.invoked) : i.block < replay.currentStartBlock
             /\ replay.lastSyncedBlock = Max(Synced \cup {NoBlock}))
    /\ [][GaveUp => /\ GaveUp'
                    /\ replay'.synced = replay.synced
                    /\ replay'.invoked = replay.invoked
                    /\ replay'.lastSyncedBlock = replay.lastSyncedBlock]_vars

\* The replay gave up on its second chunk, after the first was persisted.
C22_Witness ==
    /\ GaveUp
    /\ replay.attempts = MAX_SCAN_RETRIES + 1
    /\ replay.lastSyncedBlock = replay.startBlock
    /\ replay.currentStartBlock = replay.startBlock + SCAN_CHUNKS
    /\ replay.invoked # <<>>

\* The listener invocations that have not resolved: in flight, or failed.
Unresolved == replay.pending \cup replay.rejected

\* C23: setLastSyncedBlock is called once per chunk, with strictly increasing
\* block numbers, and for a chunk only after every listener invoked for the
\* chunk's commitment and nullifier events has resolved: no block it was called
\* with has a listener invocation in flight or failed.
C23_SyncedAfterListeners ==
    /\ \A m, n \in DOMAIN replay.synced : m < n => replay.synced[m] < replay.synced[n]
    /\ \A i \in Unresolved : i.block \notin Synced

\* C24: once the caller has raised its cancellation signal, no further chunk
\* is queried and no further lastSyncedBlock is persisted: the replay goes no
\* further than the chunk it was working on.
C24_CancellationObserved ==
    replay.cancelledAt # NoBlock
    => /\ replay.currentStartBlock > replay.cancelledAt => replay.pc # "query"
       /\ \A q \in Range(replay.queried) : q.from <= replay.cancelledAt
       /\ replay.lastSyncedBlock <= replay.cancelledAt

----------------------------------------------------------------------------
(* The encryption key *)

\* The transaction was asked for with a key that is not the wallet's.
WrongKey == tx.pc # "idle" /\ tx.encryptionKey # WalletEncryptionKey

----------------------------------------------------------------------------
(* The persisted state around a failed transaction *)

\* C26 as stated: when ERC20Transaction.prove has failed, walletDetails and
\* every persisted TXO record are what they were when it was called.
C26_FailedProveWritesNothing ==
    tx.pc = "failed" => db = tx.before.db /\ walletDetails = tx.before.walletDetails

\* The record is what it was, or Wallet.TXOs has set its spendtxid, unset
\* before, to the transaction the nullifier index holds for its nullifier.
SameOrMarkedSpent(before, after, chainID) ==
    \/ after = before
    \/ /\ before.spendtxid = ""
       /\ getNullified(chainID, before.nullifier) # ""
       /\ after = [before EXCEPT !.spendtxid = getNullified(chainID, before.nullifier)]

\* C26, amended: when ERC20Transaction.prove has failed, walletDetails is what
\* it was when it was called, no TXO record was added or removed, and a record
\* differs at most by the spendtxid that the balance query of generateInputs
\* set for a nullifier seen on the chain; from the return of that query on,
\* the call writes nothing.
C26_FailedProveOnlyMarksSpent ==
    /\ [](tx.pc = "failed"
          => /\ walletDetails = tx.before.walletDetails
             /\ DOMAIN db = DOMAIN tx.before.db
             /\ \A key \in DOMAIN db :
                    SameOrMarkedSpent(tx.before.db[key], db[key], tx.chainID))
    /\ [][(tx.pc # "idle" /\ (tx' # tx \/ tx.pc # "balances"))
          => db' = db /\ walletDetails' = walletDetails]_vars

\* A transaction failed for its balance, after its balance query had marked a
\* note spent.
C26_Witness ==
    /\ tx.pc = "failed"
    /\ tx.error = "Wallet balance too low"
    /\ db # tx.before.db

----------------------------------------------------------------------------
(* The selection and the circuit *)

\* The lengths of the prefixes of a tree's notes, largest first, whose sum
\* reaches the amount required.
Reaching(treeBalance, required) ==
    {n \in 0..Len(treeBalance.utxos) : SumOfLargest(treeBalance, n) >= required}

\* The solution holds the n largest notes of the tree.
ContainsPrefix(solution, treeBalance, n) ==
    \A i \in 1..n :
        \E j \in RealInputs(solution) :
            solution[j] = RealInput(SortBySize(treeBalance.utxos)[i])

\* C27: in the chosen tree, with k the length of the shortest prefix of the
\* notes sorted by descending amount whose sum reaches the amount required: if
\* k <= 2 the transaction has exactly 2 inputs, among them that prefix, and
\* is proved with 'erc20small'; if 3 <= k <= 10 it has exactly 10 inputs,
\* among them that prefix, and is proved with 'erc20large'.
C27_PrefixDecidesCircuit ==
    (/\ Selected
     /\ applied.result.tree \in DOMAIN applied.args.treeSortedBalances
     /\ Reaching(applied.args.treeSortedBalances[applied.result.tree],
                 applied.args.call.withdraw) # {}) =>
        LET treeBalance == applied.args.treeSortedBalances[applied.result.tree]
            reaching == Reaching(treeBalance, applied.args.call.withdraw)
            k == CHOOSE n \in reaching : \A m \in reaching : n <= m
            solution == applied.result.solution
            circuit == Circuit(Inputs(applied.result, ZeroValue))
        IN  /\ k <= NOTE_INPUTS_small
               => /\ Len(solution) = NOTE_INPUTS_small
                  /\ ContainsPrefix(solution, treeBalance, k)
                  /\ circuit = "erc20small"
            /\ (k > NOTE_INPUTS_small /\ k <= NOTE_INPUTS_large)
               => /\ Len(solution) = NOTE_INPUTS_large
                  /\ ContainsPrefix(solution, treeBalance, k)
                  /\ circuit = "erc20large"

\* Three or more notes were needed in a tree of fewer than ten: the ten inputs
\* hold them and dummy notes.
C27_Witness ==
    /\ Selected
    /\ Len(applied.result.solution) = NOTE_INPUTS_large
    /\ Cardinality(RealInputs(applied.result.solution)) \in 3..(NOTE_INPUTS_large - 1)
    /\ SumSeq(Amounts(applied.result.solution)) >= applied.args.call.withdraw

----------------------------------------------------------------------------
(* The values of a transaction *)

\* The amount of the change note among the commitments of the transaction.
Change == tx.commitments[Len(tx.outputs) + 1].amount

\* C28: when generateInputs has returned, value is conserved -
\* sum(valuesIn) + deposit = sum(valuesOut) + withdraw -, the amount of the
\* change output is totalIn - totalOut and is never negative, and every dummy
\* input and every dummy output has amount 0.
C28_ValueConserved ==
    tx.pc = "returned" =>
        LET totalIn == SumSeq(Amounts(tx.solution)) + tx.deposit
            totalOut == SumSeq(Amounts(tx.outputs)) + tx.withdraw
        IN  /\ SumSeq(tx.inputs.valuesIn) + tx.deposit
                   = SumSeq(tx.inputs.valuesOut) + tx.withdraw
            /\ Change = totalIn - totalOut
            /\ Change >= 0
            /\ \A i \in 1..Len(tx.solution) :
                   tx.solution[i].dummyKey # 0 => tx.inputs.valuesIn[i] = 0
            /\ \A n \in (Len(tx.outputs) + 2)..Len(tx.commitments) :
                   tx.inputs.valuesOut[n] = 0

----------------------------------------------------------------------------
(* The choice of the tree *)

\* The selection function was applied to a call that passes the check of
\* the balance and the checks of the withdraw address.
SelectApplied ==
    /\ applied.op = "select"
    /\ applied.result # <<>>
    /\ TotalBalance(applied.args.treeSortedBalances) >= applied.args.call.withdraw
    /\ WithdrawError(applied.args.call) = ""

\* The trees that have a usable selection for the amount required.
Usable(treeSortedBalances, required) ==
    {t \in DOMAIN treeSortedBalances : Admits(treeSortedBalances[t], required)}

\* C29: with no tree pinned, generateInputs spends from the lowest-numbered
\* tree that has a usable selection, also when lower-numbered trees hold no
\* unspent note of the token: it goes on with treeNumber equal to that tree
\* instead of failing.
C29_LowestUsableTree ==
    (/\ SelectApplied
     /\ applied.args.call.pinned = NoTree
     /\ Usable(applied.args.treeSortedBalances, applied.args.call.withdraw) # {}) =>
        LET usable == Usable(applied.args.treeSortedBalances, applied.args.call.withdraw)
            lowest == CHOOSE t \in usable : \A u \in usable : t <= u
        IN  /\ applied.result.pc # "failed"
            /\ applied.result.tree = lowest
            /\ Inputs(applied.result, ZeroValue).treeNumber = lowest

\* C30: with a tree t pinned (t = 0 included), every input of the transaction
\* is from tree t and treeNumber is t; if tree t has no usable selection,
\* generateInputs fails with 'Balances need to be consolidated before being
\* able to spend this amount', and neither spends from another tree nor goes
\* on with an empty list of inputs.
C30_PinnedTree ==
    (SelectApplied /\ applied.args.call.pinned # NoTree) =>
        LET t == applied.args.call.pinned
            usable == Usable(applied.args.treeSortedBalances, applied.args.call.withdraw)
        IN  IF t \in usable
            THEN /\ applied.result.pc # "failed"
                 /\ applied.result.tree = t
                 /\ Inputs(applied.result, ZeroValue).treeNumber = t
                 /\ \A i \in 1..Len(applied.result.solution) :
                        applied.result.solution[i].tree = t
            ELSE /\ applied.result.pc = "failed"
                 /\ applied.result.error =
                        "Balances need to be consolidated before being able to spend this amount"

----------------------------------------------------------------------------
(* The sweep of the derivation indices *)

\* scanLeaves has returned.
Swept == applied.op = "scanLeaves" /\ applied.result # <<>>

\* The derivation indices at which a key of the swept kind has a leaf among
\* the given leaves.
Matching ==
    {i \in 0..MaxIndex :
        \E p \in DOMAIN applied.args.leaves.items :
            applied.args.leaves.items[p].pubkey = getKeypair(i, applied.args.change)}

\* C31: scanLeaves terminates for every finite set of leaves, re-evaluating
\* the height after each pass; on return every derivation index in
\* [0, height + gapLimit) for the returned height has been scanned against the
\* given leaves, and the returned height is the highest index at which a leaf
\* matched in this sweep, 0 if none did.
C31_SweepTerminates ==
    /\ <>Swept
    /\ [](Swept =>
            /\ \A i \in 0..(applied.result.height + gapLimit - 1) :
                   i \in applied.result.scanned
            /\ applied.result.height =
                   Max({0} \cup (Matching \cap applied.result.scanned))
            /\ applied.result.height =
                   scanLeaves(applied.args.leaves, applied.args.change,
                              applied.args.initialHeight, 0, 1).height)
    /\ [][applied.op = "scanLeaves" /\ applied'.passes # applied.passes
          => applied'.loop.height = Max({0} \cup applied'.loop.used)]_vars

\* A sweep from height 0 found a note at the last index of its first pass,
\* made a second pass over the larger window, and found a note there too.
C31_Witness ==
    /\ Swept
    /\ applied.args.initialHeight = 0
    /\ applied.passes >= 2
    /\ applied.result.height > gapLimit

\* C32: in scan the change sweep of a tree starts from the persisted
\* changeHeight: the change derivation indices in [0, changeHeight + gapLimit)
\* are scanned whatever primaryHeight is, and a change note at an index of
\* that window has a TXO record, also when primaryHeight is 0.
C32_ChangeSweepFromChangeHeight ==
    (applied.op = "sweep" /\ applied.result # <<>>) =>
        LET window == 0..(applied.args.walletDetails.changeHeight + gapLimit - 1)
            items == applied.args.leaves.items
        IN  /\ window \subseteq applied.result.change.scanned
            /\ \A p \in DOMAIN items :
                   (\E i \in window : items[p].pubkey = getKeypair(i, TRUE))
                   => <<1, 0, p>> \in DOMAIN applied.result.change.writes

----------------------------------------------------------------------------
(* The order within a replayed chunk *)

\* The commitment listener calls of the chunk being replayed that have not
\* resolved.
UnresolvedOfChunk == {i \in Unresolved : i.block = replay.currentStartBlock}

\* C33: within one replayed chunk the commitment listener is called in the
\* order of the events, the nullifier listener is invoked only after every
\* commitment listener call of the chunk has completed, and a rejection of a
\* commitment listener is propagated to the caller of getHistoricalEvents.
C33_CommitmentsBeforeNullifiers ==
    /\ \A m, n \in DOMAIN replay.invoked :
           (m < n /\ replay.invoked[m].block = replay.invoked[n].block)
           => replay.invoked[m].n < replay.invoked[n].n
    /\ replay.pc = "nullifiers" => UnresolvedOfChunk = {}
    /\ replay.rejected # {} => replay.pc = "failed"

----------------------------------------------------------------------------
(* The blocks a replay queries *)

\* The blocks of the range of a chunk query.
BlocksOf(range) == range.from..range.to

\* C38: when getHistoricalEvents(startBlock, ...) returns normally with
\* startBlock <= latest, every block in [startBlock, latest] lay inside the
\* range of a successful chunk query, also when startBlock = latest.
C38_ReplayCoversBlocks ==
    (replay.pc = "done" /\ replay.startBlock <= replay.latest) =>
        \A block \in replay.startBlock..replay.latest :
            \E n \in DOMAIN replay.queried : block \in BlocksOf(replay.queried[n])

\* C39: in one historical replay the ranges of the successful chunk queries
\* are pairwise disjoint: no block is queried twice, so no historical event
\* is delivered to the listeners more than once.
C39_ChunkRangesDisjoint ==
    \A m, n \in DOMAIN replay.queried :
        m # n => BlocksOf(replay.queried[m]) \cap BlocksOf(replay.queried[n]) = {}

----------------------------------------------------------------------------
(* The release of the scan lock *)

\* A scan body is running on the chain.
ScanInFlight(chainID) ==
    \E s \in Slots : Running(s) /\ scanCall[s].chainID = chainID

\* C34: every scan that takes the lock of its chain releases it, also when
\* its body fails with an error: the lock of a chain is held only while a
\* scan of the chain is in flight, so a scan invoked after the scans of the
\* chain have ended does its work instead of returning as locked.
C34_LockReleased ==
    /\ [](\A c \in AllChains : scanLockPerChain[c] => ScanInFlight(c))
    /\ [][\A s \in Slots, c \in AllChains :
              (/\ ~ScanInFlight(c)
               /\ scanCall'[s] # scanCall[s]
               /\ scanCall'[s].chainID = c
               /\ ~Running(s))
              => scanCall'[s].ret # "locked"]_vars

----------------------------------------------------------------------------
(* Scan requests made while the chain is locked *)

\* The positions a chain's mirror held when slot s's call was made.
HeldAtCall(s) ==
    {tp \in (0..MaxLeaves) \X (0..(TreeCapacity - 1)) :
        /\ tp[1] + 1 <= Len(scanCall[s].lengths)
        /\ tp[2] < scanCall[s].lengths[tp[1] + 1]}

\* The keys inside the gap window whatever the heights are.
WindowKeys == {getKeypair(i, ch) : i \in 0..(gapLimit - 1), ch \in BOOLEAN}

\* No leaf of the chain's mirror raises when it is scanned.
NoBadLeaf(chainID) ==
    \A tp \in Positions(chainID) : ~LeafAt(chainID, tp).bad

\* C35: no scan request is lost: when a commitment to a key of the wallet
\* inside the gap window was appended to the mirror and scan was invoked
\* afterwards, then once the scans of the chain in flight have finished the
\* commitment has a TXO record, also when the invocation found the lock held
\* by an earlier scan and returned as locked.
C35_NoScanRequestLost ==
    \A s \in Slots :
        LET c == scanCall[s].chainID
        IN  (/\ ~Running(s)
             /\ scanCall[s].ret = "locked"
             /\ ~ScanInFlight(c)
             /\ NoBadLeaf(c))
            => \A tp \in HeldAtCall(s) :
                   LeafAt(c, tp).pubkey \in WindowKeys
                   => <<c, tp[1], tp[2]>> \in DOMAIN db

----------------------------------------------------------------------------
(* Scans of several chains and the one record of wallet details *)

DetailFields == {"treeScannedHeights", "primaryHeight", "changeHeight"}

\* C36: when scans of two chains run concurrently the persisted wallet
\* details hold the updates of both: a scan that persists does not put back
\* the earlier copy it loaded of a field that it did not update itself and
\* that the other scan has updated meanwhile.
C36_NoLostUpdate ==
    [][\A s \in Slots : Completes(s) =>
          \A f \in DetailFields :
              scanCall[s].walletDetails[f] = scanCall[s].loaded[f]
              => walletDetails'[f] = walletDetails[f]]_vars

\* C37: a scan of one chain does not make the scan of another chain skip
\* leaves: when a scan of a chain completes, no other scan having persisted
\* while it ran, every commitment to a key inside the gap window that the
\* chain's mirror held when the scan read it has a TXO record under the
\* chain's prefix, whatever the other chains' mirrors hold.
C37_OtherChainSkipsNothing ==
    [][\A s \in Slots :
          (Completes(s) /\ walletDetails = scanCall[s].loaded) =>
              \A tp \in HeldAtCall(s) :
                  LeafAt(scanCall[s].chainID, tp).pubkey \in WindowKeys
                  => <<scanCall[s].chainID, tp[1], tp[2]>> \in DOMAIN db']_vars

====
